---- MODULE Spec2Model ----
(***************************************************************************)
(* State-machine model of the UNS flexible payload processor:              *)
(*   - EnterpriseStructureDiscovery (the structure registry),              *)
(*   - FlexibleTransformer / FlexibleTopicGenerator (as far as the         *)
(*     orchestrator depends on them),                                      *)
(*   - FlexiblePayloadProcessor (the pipeline orchestrator).               *)
(* One action is one run-to-completion handler of the Node.js event loop:  *)
(* an inbound MQTT message, a timer, the completion of an I/O request, or  *)
(* an operator call.                                                       *)
(***************************************************************************)
EXTENDS Integers, Sequences, FiniteSets, TLC

(***************************************************************************)
(* Bounds of the model.                                                    *)
(***************************************************************************)
MaxAnnouncements == 2   \* metadata messages handled in one run
MaxRequests == 2        \* promises created by requestMetadata in one run
MaxMessages == 2        \* data messages handled by processMessage in one run
MaxReloads == 1         \* reloadConfiguration calls that load a configuration in one run
MaxUNSMessages == 1001  \* messages of one equipment handled by processUNSMessage
MaxOtherMessages == 2   \* messages of every other equipment it handles
MaxTimestamp == 2       \* announcement timestamps are 1..MaxTimestamp

(***************************************************************************)
(* Values.  A string is an atom together with its spelling (Spell), so     *)
(* that the substring and character tests of the code are computed.        *)
(***************************************************************************)
ID_PROD == "Prod1"
ID_QC == "QC"
ID_X == "X7"
NoId == ""               \* a missing (undefined / null / empty) string

Spell(s) ==
    CASE s = "Prod1" -> <<"P", "r", "o", "d", "1">>
      [] s = "QC" -> <<"Q", "C">>
      [] s = "X7" -> <<"X", "7">>
      [] s = "PACK-2" -> <<"P", "A", "C", "K", "-", "2">>
      [] s = "Quality9" -> <<"Q", "u", "a", "l", "i", "t", "y", "9">>
      [] s = "PackProd" -> <<"P", "a", "c", "k", "P", "r", "o", "d">>
      [] s = "QcPack" -> <<"Q", "c", "P", "a", "c", "k">>
      [] s = "ACME" -> <<"A", "C", "M", "E">>
      [] s = "Detroit" -> <<"D", "e", "t", "r", "o", "i", "t">>
      [] s = "PRODUCTION" -> <<"P", "R", "O", "D", "U", "C", "T", "I", "O", "N">>
      [] s = "Line1" -> <<"L", "i", "n", "e", "1">>
      [] s = "Globex" -> <<"G", "l", "o", "b", "e", "x">>
      [] s = "PACKAGING" -> <<"P", "A", "C", "K", "A", "G", "I", "N", "G">>
      [] s = "Hall 2" -> <<"H", "a", "l", "l", " ", "2">>
      [] s = "UnknownEnterprise" -> <<"U", "n", "k", "n", "o", "w", "n", "E", "n", "t", "e", "r", "p", "r", "i", "s", "e">>
      [] s = "UnknownSite" -> <<"U", "n", "k", "n", "o", "w", "n", "S", "i", "t", "e">>
      [] s = "GENERAL" -> <<"G", "E", "N", "E", "R", "A", "L">>
      [] s = "QUALITY_CONTROL" -> <<"Q", "U", "A", "L", "I", "T", "Y", "_", "C", "O", "N", "T", "R", "O", "L">>
      [] s = "uns" -> <<"u", "n", "s">>
      [] s = "unknown" -> <<"u", "n", "k", "n", "o", "w", "n">>
      [] s = "general" -> <<"g", "e", "n", "e", "r", "a", "l">>
      [] s = "enterprise" -> <<"e", "n", "t", "e", "r", "p", "r", "i", "s", "e">>
      [] s = "equipment" -> <<"e", "q", "u", "i", "p", "m", "e", "n", "t">>
      [] s = "process" -> <<"p", "r", "o", "c", "e", "s", "s">>
      [] s = "quality" -> <<"q", "u", "a", "l", "i", "t", "y">>
      [] s = "maintenance" -> <<"m", "a", "i", "n", "t", "e", "n", "a", "n", "c", "e">>
      [] s = "energy" -> <<"e", "n", "e", "r", "g", "y">>
      [] s = "parameters" -> <<"p", "a", "r", "a", "m", "e", "t", "e", "r", "s">>
      [] s = "metrics" -> <<"m", "e", "t", "r", "i", "c", "s">>
      [] s = "status" -> <<"s", "t", "a", "t", "u", "s">>
      [] s = "raw" -> <<"r", "a", "w">>
      [] s = "plc" -> <<"p", "l", "c">>
      [] s = "mes" -> <<"m", "e", "s">>
      [] s = "data" -> <<"d", "a", "t", "a">>
      [] s = "site" -> <<"s", "i", "t", "e">>
      [] s = "discovery" -> <<"d", "i", "s", "c", "o", "v", "e", "r", "y">>
      [] s = "request" -> <<"r", "e", "q", "u", "e", "s", "t">>
      [] s = "{enterprise}" -> <<"{", "e", "n", "t", "e", "r", "p", "r", "i", "s", "e", "}">>
      [] s = "{site}" -> <<"{", "s", "i", "t", "e", "}">>
      [] s = "{area}" -> <<"{", "a", "r", "e", "a", "}">>
      [] s = "{workUnit}" -> <<"{", "w", "o", "r", "k", "U", "n", "i", "t", "}">>
      [] s = "{equipment}" -> <<"{", "e", "q", "u", "i", "p", "m", "e", "n", "t", "}">>
      [] s = "{dataType}" -> <<"{", "d", "a", "t", "a", "T", "y", "p", "e", "}">>
      [] s = "{region}" -> <<"{", "r", "e", "g", "i", "o", "n", "}">>
      [] s = "{facility}" -> <<"{", "f", "a", "c", "i", "l", "i", "t", "y", "}">>
      [] s = "{line}" -> <<"{", "l", "i", "n", "e", "}">>
      [] s = "{metric}" -> <<"{", "m", "e", "t", "r", "i", "c", "}">>
      [] OTHER -> << >>

EquipmentIds == {ID_PROD, ID_QC}      \* ids publishers announce
RequestIds == {ID_PROD, ID_X}         \* ids data messages and callers ask for
\* Ids that exercise every branch of the fallback's area guess and their order.
FallbackIds == {ID_PROD, "PACK-2", "Quality9", ID_QC, "PackProd", "QcPack", ID_X}
Publishers == {"plc-1", "plc-2"}
NoPublisher == ""

Null == [isNull |-> TRUE]      \* JavaScript null / undefined object value
Undefined == "undefined"       \* an absent optional string field

\* structureInfo.location objects a publisher may send.  LocBad carries a key
\* the Joi schema does not list; NoLocation is a missing location.
LocA == [enterprise |-> "ACME", site |-> "Detroit", area |-> "PRODUCTION", workUnit |-> "Line1"]
LocB == [enterprise |-> "Globex", area |-> "Hall 2"]
LocBad == [enterprise |-> "ACME", isFallback |-> TRUE]
NoLocation == Null

LocationKeys == {"enterprise", "site", "area", "workUnit", "line"}
Locations == {LocA, LocB}

\* What each publisher is configured to announce about itself.
PublisherLocation(publisherId) == IF publisherId = "plc-1" THEN LocA ELSE LocB
PublisherType(publisherId) == IF publisherId = "plc-1" THEN "PRODUCTION_LINE" ELSE Undefined

\* The well-formed metadata messages: any publisher may announce any equipment id.
ValidAnnouncements ==
    { [ parseable |-> TRUE, publisherId |-> p, timestamp |-> t, equipmentId |-> e,
        equipmentType |-> PublisherType(p), location |-> PublisherLocation(p) ] :
      p \in Publishers, t \in 1..MaxTimestamp, e \in EquipmentIds }

\* The malformed ones: unparseable, or one required key missing (timestamp 0 is a
\* missing or non-ISO timestamp), or a location key the schema does not list.
InvalidAnnouncements ==
    LET good == [ parseable |-> TRUE, publisherId |-> "plc-1", timestamp |-> 1,
                  equipmentId |-> ID_PROD, equipmentType |-> "PRODUCTION_LINE",
                  location |-> LocA ] IN
    { [good EXCEPT !.parseable = FALSE],
      [good EXCEPT !.publisherId = NoPublisher],
      [good EXCEPT !.timestamp = 0],
      [good EXCEPT !.equipmentId = NoId],
      [good EXCEPT !.location = NoLocation],
      [good EXCEPT !.location = LocBad] }

\* Every metadata message the model feeds to handleMetadataMessage.
Announcements == ValidAnnouncements \cup InvalidAnnouncements

\* String.prototype.toLowerCase on the characters the ids use.
LowerChar(c) ==
    CASE c = "P" -> "p" [] c = "Q" -> "q" [] c = "C" -> "c" [] c = "X" -> "x"
      [] c = "R" -> "r" [] c = "O" -> "o" [] c = "D" -> "d" [] c = "A" -> "a"
      [] c = "K" -> "k" [] OTHER -> c

toLowerCase(s) == [i \in 1..Len(s) |-> LowerChar(s[i])]

\* String.prototype.includes
includes(s, sub) ==
    \E i \in 1..(Len(s) - Len(sub) + 1) : SubSeq(s, i, i + Len(sub) - 1) = sub

Has(obj, key) == key \in DOMAIN obj
\* JavaScript truthiness of an object-or-null value
Truthy(obj) == obj # Null
\* structure.isFallback read as a condition (undefined is falsy)
IsFallback(obj) == Has(obj, "isFallback") /\ obj.isFallback = TRUE

VARIABLES
    config,          \* the configuration object read by all components
    enterpriseMap,   \* EnterpriseStructureDiscovery.enterpriseMap
    metadataCache,   \* EnterpriseStructureDiscovery.metadataCache
    requests,        \* promises created by requestMetadata, in creation order
    emitted,         \* structureDiscovered events emitted so far
    mqttOut,         \* messages handed to mqttClient.publish, in order
    handled,         \* metadata messages handled so far
    lastValid,       \* history: per equipment id, the valid announcement that arrived last
    newestTs,        \* history: per equipment id, the newest timestamp applied so far
    dropped,         \* history: metadata messages that arrived malformed
    returned,        \* what the handler that ran last returned to its outside caller
    processingStats, \* FlexiblePayloadProcessor.processingStats
    redis,           \* keys of the SETEX commands sent to the Redis client
    messages,        \* the processMessage call of every data message, in arrival order
    mongo,           \* documents handed to collection.insertOne, in order
    generation,      \* how often reloadConfiguration replaced transformer and topicGenerator
    switched,        \* history: the switchOutputFormat call made last since the
                     \* configuration was loaded
    loading,         \* FlexibleTransformer.transformers (its keys) of the current
                     \* transformer, and where its init() stands
    scadaData,       \* IgnitionMQTTBridge.scadaData: its alarms and trends
    arrivals,        \* history: how many entries each list of scadaData was given
    unsHandled       \* history: per work unit, the messages processUNSMessage handled

registryVars == <<enterpriseMap, metadataCache, requests, emitted>>
historyVars == <<handled, lastValid, newestTs, dropped>>
pipelineVars == <<messages, mongo>>
reconfigVars == <<generation, switched, loading>>
bridgeVars == <<scadaData, arrivals, unsHandled>>
vars == <<config, enterpriseMap, metadataCache, requests, emitted, mqttOut,
          handled, lastValid, newestTs, dropped, returned, processingStats, redis,
          messages, mongo, generation, switched, loading,
          scadaData, arrivals, unsHandled>>

(***************************************************************************)
(* EnterpriseStructureDiscovery                                            *)
(***************************************************************************)

\* init(): the metadata listener is installed only in a non-static discovery mode.
isDiscoveryActive ==
    ~(config.discoveryMode = Undefined \/ config.discoveryMode = "static")

\* Mutant of ValidMetadata: the timestamp is not required.
ValidMetadataNoTimestamp(metadata) ==
    /\ metadata.publisherId # NoPublisher
    /\ metadata.location # NoLocation
    /\ DOMAIN metadata.location \subseteq LocationKeys
    /\ metadata.equipmentId # NoId

\* metadataSchema.validate(metadata): the required keys of loadMetadataSchema;
\* Joi rejects empty strings and keys the schema does not list.
ValidMetadata(metadata) ==
    /\ metadata.publisherId # NoPublisher
    /\ metadata.timestamp # 0
    /\ metadata.location # NoLocation
    /\ DOMAIN metadata.location \subseteq LocationKeys
    /\ metadata.equipmentId # NoId

\* Mutant of getFallbackArea: 'pack' is tested before 'prod'.
getFallbackAreaPackFirst(equipmentId) ==
    IF includes(toLowerCase(Spell(equipmentId)), <<"p", "a", "c", "k">>) THEN "PACKAGING"
    ELSE IF includes(toLowerCase(Spell(equipmentId)), <<"p", "r", "o", "d">>) THEN "PRODUCTION"
    ELSE IF \/ includes(toLowerCase(Spell(equipmentId)), <<"q", "u", "a", "l", "i", "t", "y">>)
            \/ includes(toLowerCase(Spell(equipmentId)), <<"q", "c">>) THEN "QUALITY_CONTROL"
    ELSE "GENERAL"

getFallbackArea(equipmentId) ==
    IF includes(toLowerCase(Spell(equipmentId)), <<"p", "r", "o", "d">>) THEN "PRODUCTION"
    ELSE IF includes(toLowerCase(Spell(equipmentId)), <<"p", "a", "c", "k">>) THEN "PACKAGING"
    ELSE IF \/ includes(toLowerCase(Spell(equipmentId)), <<"q", "u", "a", "l", "i", "t", "y">>)
            \/ includes(toLowerCase(Spell(equipmentId)), <<"q", "c">>) THEN "QUALITY_CONTROL"
    ELSE "GENERAL"

getFallbackStructure(equipmentId) ==
    [ enterprise |-> "UnknownEnterprise",
      site |-> "UnknownSite",
      area |-> getFallbackArea(equipmentId),
      workUnit |-> equipmentId,
      equipmentType |-> "UNKNOWN",
      source |-> "fallback",
      isFallback |-> TRUE ]

\* The structure updateEnterpriseStructure builds: the location's own keys, then
\* the keys the registry adds (a later key of the object literal wins).  The
\* wall-clock field lastUpdated is left out here and in the fallback: nothing
\* in the program reads it back except getStats.
BuildStructure(metadata) ==
    [ equipmentType |-> metadata.equipmentType,
      source |-> metadata.publisherId ] @@ metadata.location

MapSet(map, key, value) ==
    [k \in (DOMAIN map) \cup {key} |-> IF k = key THEN value ELSE map[k]]

\* Mutant of updateEnterpriseStructure: the map is keyed by the publisher.
updateEnterpriseStructureByPublisher(map, metadata) ==
    MapSet(map, metadata.publisherId, BuildStructure(metadata))

\* Mutant of updateEnterpriseStructure: the map is replaced by one that holds
\* the new entry only.
updateEnterpriseStructureReset(map, metadata) ==
    MapSet(<< >>, metadata.equipmentId, BuildStructure(metadata))

updateEnterpriseStructure(map, metadata) ==
    MapSet(map, metadata.equipmentId, BuildStructure(metadata))

\* Mutant of getEnterpriseStructure: the adaptive fallback is tried first.
getEnterpriseStructureFallbackFirst(map, equipmentId) ==
    IF config.fallbackMode = "adaptive" THEN getFallbackStructure(equipmentId)
    ELSE IF equipmentId \in DOMAIN map THEN map[equipmentId]
    ELSE Null

\* getEnterpriseStructure(equipmentId) of the registry, on registry state `map`.
getEnterpriseStructure(map, equipmentId) ==
    IF equipmentId \in DOMAIN map THEN map[equipmentId]
    ELSE IF config.fallbackMode = "adaptive" THEN getFallbackStructure(equipmentId)
    ELSE Null

\* Mutant of NewRequest: the registry is not consulted first.
NewRequestAlwaysAsks(map, equipmentId, owner) ==
    [ equipmentId |-> equipmentId, owner |-> owner, state |-> "pending",
      result |-> Null, timer |-> TRUE, listener |-> TRUE ]

\* The promise requestMetadata(equipmentId) creates for caller `owner`
\* (0: a caller outside the pipeline; i > 0: data message i).
NewRequest(map, equipmentId, owner) ==
    LET existingStructure == getEnterpriseStructure(map, equipmentId) IN
    IF Truthy(existingStructure) /\ ~IsFallback(existingStructure)
    THEN [ equipmentId |-> equipmentId, owner |-> owner, state |-> "resolved",
           result |-> existingStructure, timer |-> FALSE, listener |-> FALSE ]
    ELSE [ equipmentId |-> equipmentId, owner |-> owner, state |-> "pending",
           result |-> Null, timer |-> TRUE, listener |-> TRUE ]

DiscoveryRequest(equipmentId) ==
    [ kind |-> "discovery",
      topic |-> <<"discovery", "request", equipmentId>>,
      equipmentId |-> equipmentId ]

\* Mutant of requestMetadata: a call publishes no discovery request while
\* another call for the same id is pending.
requestMetadataDeduplicated(equipmentId, owner) ==
    LET request == NewRequest(enterpriseMap, equipmentId, owner) IN
    /\ requests' = Append(requests, request)
    /\ mqttOut' = IF /\ request.state = "pending"
                     /\ ~\E i \in DOMAIN requests :
                            /\ requests[i].equipmentId = equipmentId
                            /\ requests[i].state = "pending"
                  THEN Append(mqttOut, DiscoveryRequest(equipmentId))
                  ELSE mqttOut

\* requestMetadata(equipmentId, timeout): the executor of the promise runs at once.
requestMetadata(equipmentId, owner) ==
    LET request == NewRequest(enterpriseMap, equipmentId, owner) IN
    /\ requests' = Append(requests, request)
    /\ mqttOut' = IF request.state = "pending"
                  THEN Append(mqttOut, DiscoveryRequest(equipmentId))
                  ELSE mqttOut

\* Mutant of discoveryHandler: clearTimeout is called for every event.
discoveryHandlerClearsTimer(request, event) ==
    IF request.listener /\ event.equipmentId = request.equipmentId
    THEN [request EXCEPT !.state = "resolved", !.result = event.structure,
                         !.timer = FALSE, !.listener = FALSE]
    ELSE [request EXCEPT !.timer = FALSE]

\* Mutant of discoveryHandler: the event's equipment id is not compared.
discoveryHandlerAnyId(request, event) ==
    IF request.listener
    THEN [request EXCEPT !.state = "resolved", !.result = event.structure,
                         !.timer = FALSE, !.listener = FALSE]
    ELSE request

\* discoveryHandler(event) of one request: a listener that is still registered.
discoveryHandler(request, event) ==
    IF request.listener /\ event.equipmentId = request.equipmentId
    THEN [request EXCEPT !.state = "resolved", !.result = event.structure,
                         !.timer = FALSE, !.listener = FALSE]
    ELSE request

\* Mutant of timeoutHandler: the listener is not removed.
timeoutHandlerKeepsListener(request) ==
    [request EXCEPT !.state = "resolved",
                    !.result = getFallbackStructure(request.equipmentId),
                    !.timer = FALSE]

\* The callback of setTimeout in requestMetadata.
timeoutHandler(request) ==
    [request EXCEPT !.state = "resolved",
                    !.result = getFallbackStructure(request.equipmentId),
                    !.timer = FALSE, !.listener = FALSE]

StructureDiscovered(metadata) ==
    [ equipmentId |-> metadata.equipmentId,
      structure |-> metadata.location,
      metadata |-> metadata ]

\* cacheEnterpriseStructure: the pipeline's own structureDiscovered listener
\* sends SETEX structure:<id> to Redis and does not wait for the outcome.
StructureKey(equipmentId) == [key |-> "structure", equipmentId |-> equipmentId]
LatestKey(equipmentId) == [key |-> "latest", equipmentId |-> equipmentId]

\* processMessage on a message of a metadata topic: the pipeline's own 'message'
\* listener sees it too, counts it, parses it and finds no input source for it.
CountMetadataMessage(stats, metadata) ==
    [stats EXCEPT !.messagesProcessed = @ + 1,
                  !.transformationErrors = IF metadata.parseable THEN @ ELSE @ + 1]

\* handleMetadataMessage(topic, message)
handleMetadataMessage(metadata) ==
    IF ~metadata.parseable \/ ~ValidMetadata(metadata)
    THEN UNCHANGED <<enterpriseMap, metadataCache, requests, emitted, redis,
                     lastValid, newestTs>>
    ELSE /\ metadataCache' = MapSet(metadataCache, metadata.publisherId, metadata)
         /\ enterpriseMap' = updateEnterpriseStructure(enterpriseMap, metadata)
         /\ emitted' = emitted + 1
         /\ redis' = redis \cup {StructureKey(metadata.equipmentId)}
         /\ requests' = [i \in DOMAIN requests |->
                            discoveryHandler(requests[i], StructureDiscovered(metadata))]
         /\ lastValid' = MapSet(lastValid, metadata.equipmentId, metadata)
         /\ newestTs' = MapSet(newestTs, metadata.equipmentId,
                               IF metadata.equipmentId \in DOMAIN newestTs
                                  /\ newestTs[metadata.equipmentId] > metadata.timestamp
                               THEN newestTs[metadata.equipmentId]
                               ELSE metadata.timestamp)

\* The return register when the last handler returned nothing to a caller.
NoReturn == [equipmentId |-> NoId, result |-> Null]

(***************************************************************************)
(* Data messages                                                           *)
(***************************************************************************)
\* MQTT topics as their '/'-separated levels.
T_X == <<"raw", "plc", "X7", "data">>
T_PROD == <<"raw", "plc", "Prod1", "data">>
T_OTHER == <<"raw", "mes", "X7", "data">>
T_NESTED == <<"site", "raw", "plc", "X7", "data">>
T_EMPTY == <<"raw", "plc", "", "data">>       \* raw/plc//data: its third level is empty

\* A numeric field that is missing from a payload.
NoNumber == -1

\* sensors.power_consumption of the observations a publisher sends (kW).
PowerConsumption == 50

\* The parsed payload of a data message: the fields the pipeline reads.
\* sensors, quality and hasStatus say whether the sensors, quality and status
\* objects are present; efficiency is status.efficiency, goodParts and badParts
\* are quality.good_parts and quality.bad_parts, powerConsumption and
\* sensorsRuntimeHours are sensors.power_consumption and sensors.runtime_hours,
\* runtimeHours is status.runtime_hours.
RawData(machineId, sensors, quality) ==
    [ machineId |-> machineId, machineType |-> Undefined, sensors |-> sensors,
      quality |-> quality, hasStatus |-> FALSE, state |-> Undefined,
      errorCode |-> FALSE, efficiency |-> NoNumber,
      goodParts |-> NoNumber, badParts |-> NoNumber,
      powerConsumption |-> IF sensors THEN PowerConsumption ELSE NoNumber,
      sensorsRuntimeHours |-> NoNumber, runtimeHours |-> NoNumber ]

\* The payload whose status object reports its runtime hours.
WithRuntimeHours(rawData, runtimeHours) == [rawData EXCEPT !.runtimeHours = runtimeHours]

\* The payload whose sensors object has no power_consumption reading.
WithoutPower(rawData) == [rawData EXCEPT !.powerConsumption = NoNumber]

\* The payload whose sensors object carries a runtime_hours reading.
WithSensorsRuntimeHours(rawData, runtimeHours) ==
    [rawData EXCEPT !.sensorsRuntimeHours = runtimeHours]

\* The payload with a status object: its state and whether it has an error_code.
WithStatus(rawData, state, errorCode) ==
    [rawData EXCEPT !.hasStatus = TRUE, !.state = state, !.errorCode = errorCode]

\* The payload whose status object reports an efficiency percent.
WithEfficiency(rawData, efficiency) == [rawData EXCEPT !.efficiency = efficiency]

\* The payload with a quality object that holds the two part counts.
WithQuality(rawData, goodParts, badParts) ==
    [rawData EXCEPT !.quality = TRUE, !.goodParts = goodParts, !.badParts = badParts]

\* A data message: its topic, whether its text is JSON, whether the input schema
\* of its source (when one is loaded) rejects it, and the value JSON.parse gives.
DataMessage(topic, parseable, schemaError, rawData) ==
    [ topic |-> topic, parseable |-> parseable, schemaError |-> schemaError,
      rawData |-> rawData ]

DataMessages ==
    { DataMessage(T_X, FALSE, FALSE, Null),                            \* not JSON
      DataMessage(T_X, TRUE, FALSE, Null),                             \* the JSON text null
      DataMessage(T_OTHER, TRUE, FALSE, RawData(ID_X, TRUE, FALSE)),   \* no input source
      DataMessage(T_X, TRUE, TRUE, RawData(ID_X, TRUE, FALSE)),        \* rejected by the schema
      DataMessage(T_PROD, TRUE, FALSE, RawData(ID_PROD, TRUE, FALSE)),
      DataMessage(T_X, TRUE, FALSE, RawData(NoId, FALSE, FALSE)) }     \* no machineId

\* a || b on optional strings
Or(a, b) == IF a = Undefined \/ a = NoId THEN b ELSE a
\* obj.key for a string-valued key of an object that may be null or lack the key
Get(obj, key) == IF Has(obj, key) THEN obj[key] ELSE Undefined

(***************************************************************************)
(* FlexibleTransformer                                                     *)
(***************************************************************************)
\* The formats of config.outputFormats: init() registers a built-in transformer
\* for each of them.
transformers == {"isa95-part2", "isa95-legacy", "custom-hierarchical"}

\* config.outputFormats in the order of the file: the first format names a
\* transformer file and a schema file, the others have built-in transformers
\* only.
outputFormats ==
    << [formatName |-> "isa95-part2", transformer |-> TRUE, schema |-> TRUE],
       [formatName |-> "isa95-legacy", transformer |-> FALSE, schema |-> FALSE],
       [formatName |-> "custom-hierarchical", transformer |-> FALSE, schema |-> FALSE] >>

\* Where init() of a FlexibleTransformer stands: the names registered so far,
\* the format its loop is at, and the file operation it awaits ("access" in
\* fileExists, "readFile" of the schema, or "nothing" once the loop has ended).
InitState(registered, at, awaits) ==
    [registered |-> registered, at |-> at, awaits |-> awaits]

RECURSIVE init(_, _)
\* loadTransformer(formatName, formatConfig) once the transformer is known: it
\* is registered, and the schema file is read if one is named.
loadTransformer(registered, at) ==
    LET set == registered \cup {outputFormats[at].formatName} IN
    IF outputFormats[at].schema THEN InitState(set, at, "readFile")
    ELSE init(set, at + 1)

\* init() from the format at position at, up to the file operation it awaits
\* next.
init(registered, at) ==
    IF at > Len(outputFormats) THEN InitState(registered, at, "nothing")
    ELSE IF outputFormats[at].transformer THEN InitState(registered, at, "access")
    ELSE loadTransformer(registered, at)

\* new FlexibleTransformer(config): the constructor calls init() and does not
\* await it.
NewFlexibleTransformer == init({}, 1)

\* A transformer whose init() has ended.
LoadedFlexibleTransformer ==
    InitState(transformers, Len(outputFormats) + 1, "nothing")
\* A format name config.outputFormats does not list.
UnlistedFormat == "sparkplug"

TransformError == [error |-> TRUE]

\* Numbers the transformer computes are kept exact, as fractions in lowest terms.
RECURSIVE GCD(_, _)
GCD(a, b) == IF b = 0 THEN a ELSE GCD(b, a % b)

Frac(n, d) == IF n = 0 THEN [num |-> 0, den |-> 1]
              ELSE [num |-> n \div GCD(n, d), den |-> d \div GCD(n, d)]

\* JavaScript truthiness of an optional number: undefined and 0 are falsy.
TruthyNumber(n) == n # NoNumber /\ n # 0

\* calculateAvailability(rawData.status)
calculateAvailability(rawData) ==
    IF ~rawData.hasStatus THEN 0
    ELSE CASE rawData.state = "RUNNING" -> 100
           [] rawData.state = "IDLE" -> 75
           [] rawData.state = "ERROR" -> 0
           [] rawData.state = "MAINTENANCE" -> 0
           [] OTHER -> 50

\* calculateQualityRate(rawData.quality)
calculateQualityRate(rawData) ==
    IF ~rawData.quality \/ ~TruthyNumber(rawData.goodParts)
       \/ ~TruthyNumber(rawData.badParts)
    THEN Frac(100, 1)
    ELSE LET total == rawData.goodParts + rawData.badParts IN
         IF total > 0 THEN Frac(rawData.goodParts * 100, total) ELSE Frac(100, 1)

\* rawData.status?.efficiency || fallback
efficiencyOr(rawData, fallback) ==
    IF rawData.hasStatus /\ TruthyNumber(rawData.efficiency)
    THEN rawData.efficiency
    ELSE fallback

\* calculateOEE(rawData)
calculateOEE(rawData) ==
    LET availability == calculateAvailability(rawData)
        performance == efficiencyOr(rawData, 100)
        quality == calculateQualityRate(rawData)
    IN  Frac(availability * performance * quality.num, quality.den * 10000)

\* Mutant of determineDataType: the sensors are tested before the quality.
determineDataTypeSensorsFirst(rawData) ==
    IF rawData.sensors THEN "process"
    ELSE IF rawData.quality THEN "quality"
    ELSE IF rawData.hasStatus /\ (rawData.state = "MAINTENANCE" \/ rawData.errorCode)
    THEN "maintenance"
    ELSE "equipment"

determineDataType(rawData) ==
    IF rawData.quality THEN "quality"
    ELSE IF rawData.hasStatus /\ (rawData.state = "MAINTENANCE" \/ rawData.errorCode)
    THEN "maintenance"
    ELSE IF rawData.sensors THEN "process"
    ELSE "equipment"

\* transformEnergyMetrics(rawData.sensors)
transformEnergyMetrics(rawData) ==
    IF ~rawData.sensors \/ rawData.powerConsumption = NoNumber THEN Null
    ELSE [ powerConsumption |-> rawData.powerConsumption,
           energyTotal |-> rawData.powerConsumption *
                              (IF TruthyNumber(rawData.sensorsRuntimeHours)
                               THEN rawData.sensorsRuntimeHours ELSE 1),
           efficiency |-> 85 ]

\* createISA95Part2Transformer().transform: the fields of the document the
\* pipeline reads afterwards.  rawData.timestamp throws on a null payload.
\* processParameters is an object ({} without sensors), so it is always truthy.
transformISA95Part2(rawData, enterpriseStructure) ==
    IF rawData = Null THEN TransformError
    ELSE [ equipmentId |-> rawData.machineId,
           workUnit |-> Or(Get(enterpriseStructure, "workUnit"), rawData.machineId),
           equipmentClass |-> Or(Get(enterpriseStructure, "equipmentType"),
                                 rawData.machineType),
           availability |-> calculateAvailability(rawData),
           performance |-> efficiencyOr(rawData, 0),
           quality |-> calculateQualityRate(rawData),
           oee |-> calculateOEE(rawData),
           dataType |-> determineDataType(rawData),
           processParameters |-> TRUE,
           qualityMetrics |-> rawData.quality,
           maintenanceInfo |-> rawData.hasStatus,
           energyMetrics |-> transformEnergyMetrics(rawData),
           isEnterpriseDiscovered |-> ~IsFallback(enterpriseStructure) ]

\* createISA95LegacyTransformer().transform calls transformer.mapEquipmentStatus,
\* and `transformer` is not a name in its scope: every call throws.
transformISA95Legacy(rawData, enterpriseStructure) == TransformError

\* createCustomHierarchicalTransformer().transform calls
\* this.transformOperationalData, which FlexibleTransformer does not define:
\* every call throws.
transformCustomHierarchical(rawData, enterpriseStructure) == TransformError

\* transform(formatName, rawData, enterpriseStructure, context)
transform(formatName, rawData, enterpriseStructure) ==
    IF formatName \notin loading.registered THEN TransformError
    ELSE CASE formatName = "isa95-part2" ->
                  transformISA95Part2(rawData, enterpriseStructure)
           [] formatName = "isa95-legacy" ->
                  transformISA95Legacy(rawData, enterpriseStructure)
           [] formatName = "custom-hierarchical" ->
                  transformCustomHierarchical(rawData, enterpriseStructure)

(***************************************************************************)
(* FlexibleTopicGenerator                                                  *)
(***************************************************************************)
NoTemplate == << >>

\* topicTemplates: the topicTemplate of every format of config.outputFormats
\* that has one.
topicTemplates(formatName) ==
    IF ~config.hasTemplates THEN NoTemplate
    ELSE
    CASE formatName = "isa95-part2" ->
             <<"uns", "{enterprise}", "{site}", "{area}", "{workUnit}",
               "{equipment}", "{dataType}">>
      [] formatName = "custom-hierarchical" ->
             <<"{enterprise}", "{region}", "{facility}", "{line}", "{equipment}",
               "{metric}">>
      [] OTHER -> NoTemplate

getEquipmentId(transformedData) == Or(transformedData.equipmentId, "unknown")

extractVariables(transformedData, enterpriseStructure) ==
    LET equipmentId == getEquipmentId(transformedData) IN
    [ enterprise |-> Or(Get(enterpriseStructure, "enterprise"), "unknown"),
      site |-> Or(Get(enterpriseStructure, "site"), "unknown"),
      area |-> Or(Get(enterpriseStructure, "area"), "general"),
      workUnit |-> Or(Get(enterpriseStructure, "workUnit"), equipmentId),
      line |-> Or(Get(enterpriseStructure, "line"),
                  Or(Get(enterpriseStructure, "workUnit"), "unknown")),
      equipment |-> equipmentId,
      dataType |-> Or(transformedData.dataType, "equipment"),
      region |-> Or(Get(enterpriseStructure, "site"), "unknown"),
      facility |-> Or(Get(enterpriseStructure, "area"), "general"),
      metric |-> Or(transformedData.dataType, "status") ]

\* The value a template level takes: a {variable} level is replaced, any other
\* level (an unknown placeholder too) is kept.
SubstituteLevel(level, variables) ==
    CASE level = "{enterprise}" -> variables.enterprise
      [] level = "{site}" -> variables.site
      [] level = "{area}" -> variables.area
      [] level = "{workUnit}" -> variables.workUnit
      [] level = "{line}" -> variables.line
      [] level = "{equipment}" -> variables.equipment
      [] level = "{dataType}" -> variables.dataType
      [] level = "{region}" -> variables.region
      [] level = "{facility}" -> variables.facility
      [] level = "{metric}" -> variables.metric
      [] OTHER -> level

NonEmptyLevel(level) == level # NoId

\* substituteVariables(template, variables): the placeholders are replaced, then
\* repeated slashes collapse and a trailing slash goes, i.e. empty levels vanish.
substituteVariables(template, variables) ==
    SelectSeq([i \in 1..Len(template) |-> SubstituteLevel(template[i], variables)],
              NonEmptyLevel)

generateEnterpriseEquipmentTopic(equipmentId, variables) ==
    <<"uns", "enterprise", Or(variables.enterprise, "unknown"), "equipment", equipmentId>>

\* Mutant of MetricTopics: no metric topic is added.
MetricTopicsNone(baseTopic, transformedData) == << >>

\* The metric topic generateTopicsFromTemplate adds for the document's data type.
MetricTopics(baseTopic, transformedData) ==
    CASE transformedData.dataType = "process" /\ transformedData.processParameters ->
             << baseTopic \o <<"process", "parameters">> >>
      [] transformedData.dataType = "quality" /\ transformedData.qualityMetrics ->
             << baseTopic \o <<"quality", "metrics">> >>
      [] transformedData.dataType = "maintenance" /\ transformedData.maintenanceInfo ->
             << baseTopic \o <<"maintenance", "status">> >>
      [] transformedData.dataType = "energy" /\ Truthy(transformedData.energyMetrics) ->
             << baseTopic \o <<"energy", "metrics">> >>
      [] OTHER -> << >>

generateTopicsFromTemplate(template, transformedData, enterpriseStructure) ==
    LET variables == extractVariables(transformedData, enterpriseStructure)
        baseTopic == substituteVariables(template, variables)
        dataType == Or(transformedData.dataType, "equipment")
        typeTopic == IF \E i \in 1..Len(template) : template[i] = "{dataType}"
                     THEN substituteVariables(template, variables)
                     ELSE baseTopic \o <<dataType>>
    IN  <<baseTopic, typeTopic>>
        \o MetricTopics(baseTopic, transformedData)
        \o << generateEnterpriseEquipmentTopic(getEquipmentId(transformedData),
                                               variables) >>

generateDefaultTopics(transformedData, enterpriseStructure) ==
    LET equipmentId == getEquipmentId(transformedData)
        baseTopic == <<"uns", Or(Get(enterpriseStructure, "area"), "general"),
                       Or(Get(enterpriseStructure, "workUnit"), equipmentId)>>
    IN  << baseTopic \o <<"equipment", "status">>,
           <<"uns", "enterprise", "equipment", equipmentId>> >>

generateTopics(formatName, transformedData, enterpriseStructure) ==
    IF topicTemplates(formatName) = NoTemplate
    THEN generateDefaultTopics(transformedData, enterpriseStructure)
    ELSE generateTopicsFromTemplate(topicTemplates(formatName), transformedData,
                                    enterpriseStructure)

\* The characters of a topic: its levels joined by '/'.
RECURSIVE TopicString(_)
TopicString(topic) ==
    IF topic = << >> THEN << >>
    ELSE IF Len(topic) = 1 THEN Spell(topic[1])
    ELSE Spell(topic[1]) \o <<"/">> \o TopicString(Tail(topic))

maxLength == 256

\* The characters the class [a-zA-Z0-9/_-] rejects, among those the model spells.
ForbiddenChars == {"{", "}", " ", "+", "#", "."}

validateTopicStructure(topic) ==
    LET chars == TopicString(topic) IN
    /\ Len(chars) <= maxLength
    /\ Len(chars) > 0
    /\ \A i \in 1..Len(chars) : chars[i] \notin ForbiddenChars
    /\ chars[1] # "/"
    /\ chars[Len(chars)] # "/"
    /\ \A i \in 1..(Len(chars) - 1) : ~(chars[i] = "/" /\ chars[i + 1] = "/")

(***************************************************************************)
(* FlexiblePayloadProcessor                                                *)
(***************************************************************************)
NoSource == ""

\* config.inputSources: one source, "raw-plc", fed by the topics raw/plc/+/data.
inputTopics == <<"raw", "plc", "+", "data">>

StartsWith(s, prefix) == Len(prefix) <= Len(s) /\ SubSeq(s, 1, Len(prefix)) = prefix
EndsWith(s, suffix) ==
    Len(suffix) <= Len(s) /\ SubSeq(s, Len(s) - Len(suffix) + 1, Len(s)) = suffix

\* The regular expression made from a topic pattern has no anchors: it matches
\* when some run of levels of the topic fits, the first pattern level at the
\* end of a level and the last pattern level at the start of one.
MatchesAt(pattern, topic, k) ==
    /\ k + Len(pattern) - 1 <= Len(topic)
    /\ \A j \in 1..Len(pattern) :
          LET level == Spell(topic[k + j - 1]) IN
          IF pattern[j] = "+" THEN Len(level) > 0
          ELSE IF j = 1 /\ j = Len(pattern) THEN includes(level, Spell(pattern[j]))
          ELSE IF j = 1 THEN EndsWith(level, Spell(pattern[j]))
          ELSE IF j = Len(pattern) THEN StartsWith(level, Spell(pattern[j]))
          ELSE level = Spell(pattern[j])

determineSourceType(topic) ==
    IF \E k \in 1..Len(topic) : MatchesAt(inputTopics, topic, k)
    THEN "raw-plc"
    ELSE NoSource

\* Mutant of validateInput: the validation result is ignored.
validateInputAcceptsAll(sourceType, message) == TRUE

\* validateInput: without a loaded schema every payload is valid; with one, the
\* payload is valid unless the schema rejects it.
validateInput(sourceType, message) == ~message.schemaError

\* extractField(rawData, "machineId")
extractField(rawData) == IF rawData = Null THEN Undefined ELSE rawData.machineId

\* The index in a locationHint of the form topic.parts[2]
HintIndex == 2

\* extractFromTopic(topic, locationHint)
extractFromTopic(topic, locationHint) ==
    IF locationHint = Undefined THEN NoId
    ELSE IF Len(topic) >= HintIndex + 1 THEN topic[HintIndex + 1]
    ELSE NoId

\* extractEquipmentInfo(sourceType, rawData, topic).equipmentId
extractEquipmentInfo(message) ==
    Or(extractField(message.rawData), extractFromTopic(message.topic, config.locationHint))

\* No switchOutputFormat call was made yet.
NoSwitch == [formatName |-> "", error |-> FALSE]

\* The state of one processMessage call.  pc is where the call stands:
\*   "returned"  it returned early (no input source, or an invalid payload)
\*   "waiting"   it awaits requestMetadata
\*   "caching", "cachingStructure", "persisting", "publishing"
\*               it awaits the Redis, MongoDB or MQTT client
\*   "done"      it returned after publishing
\*   "failed"    its catch block ran; failedAt names the statement that threw
NewMessage(message) ==
    [ rawData |-> message.rawData, schemaError |-> message.schemaError,
      sourceType |-> NoSource, equipmentId |-> NoId,
      request |-> 0, pc |-> "received", failedAt |-> "", structure |-> Null,
      outputFormat |-> "", transformedData |-> Null, topics |-> << >>,
      cached |-> FALSE, persisted |-> FALSE, published |-> << >>,
      publishErrors |-> FALSE,
      beganWith |-> generation, transformedWith |-> generation,
      switchAtStart |-> switched, formatAtStart |-> config.outputFormat,
      topic |-> message.topic ]

\* A microtask is queued: a processMessage call whose requestMetadata promise is
\* resolved continues before any other event is handled.
ContinuationPending ==
    \E i \in DOMAIN messages :
        /\ messages[i].pc = "waiting"
        /\ requests[messages[i].request].state = "resolved"

\* Mutant of catchError: the error is logged and not counted.
catchErrorSilently(stats) == stats

\* The catch block of processMessage.
catchError(stats) == [stats EXCEPT !.transformationErrors = @ + 1]

\* Mutant of resolveLocally: the registry's fallback is not used.
resolveLocallyEntryOnly(equipmentId) ==
    IF equipmentId = NoId THEN Null
    ELSE IF equipmentId \in DOMAIN enterpriseMap THEN enterpriseMap[equipmentId]
    ELSE Null

\* getEnterpriseStructure(equipmentId) of the pipeline, up to its request.
resolveLocally(equipmentId) ==
    IF equipmentId = NoId THEN Null
    ELSE getEnterpriseStructure(enterpriseMap, equipmentId)

\* Mutant of transformAndRoute: the topics are derived with the format that was
\* active when processMessage began.
transformAndRouteStartFormat(m, enterpriseStructure) ==
    LET outputFormat == config.outputFormat
        transformedData == transform(outputFormat, m.rawData, enterpriseStructure)
    IN  IF transformedData = TransformError
        THEN [m EXCEPT !.pc = "failed", !.failedAt = "transform",
                       !.structure = enterpriseStructure,
                       !.outputFormat = outputFormat,
                       !.transformedWith = generation]
        ELSE [m EXCEPT !.pc = "caching",
                       !.transformedWith = generation,
                       !.structure = enterpriseStructure,
                       !.outputFormat = outputFormat,
                       !.transformedData = transformedData,
                       !.topics = generateTopics(m.formatAtStart, transformedData,
                                                 enterpriseStructure),
                       !.cached = TRUE]

\* processMessage from the transform to the first write it awaits: the local
\* outputFormat is read once and names both the transformer and the templates.
transformAndRoute(m, enterpriseStructure) ==
    LET outputFormat == config.outputFormat
        transformedData == transform(outputFormat, m.rawData, enterpriseStructure)
    IN  IF transformedData = TransformError
        THEN [m EXCEPT !.pc = "failed", !.failedAt = "transform",
                       !.structure = enterpriseStructure,
                       !.outputFormat = outputFormat,
                       !.transformedWith = generation]
        ELSE [m EXCEPT !.pc = "caching",
                       !.transformedWith = generation,
                       !.structure = enterpriseStructure,
                       !.outputFormat = outputFormat,
                       !.transformedData = transformedData,
                       !.topics = generateTopics(outputFormat, transformedData,
                                                 enterpriseStructure),
                       !.cached = TRUE]

\* processMessage continues with the enterprise structure it was given: message
\* i either fails in the transform or sends SETEX <latest key> to Redis.
AfterResolution(i, m, enterpriseStructure, stats) ==
    LET after == transformAndRoute(m, enterpriseStructure) IN
    /\ messages' = IF i > Len(messages) THEN Append(messages, after)
                   ELSE [messages EXCEPT ![i] = after]
    /\ processingStats' = IF after.pc = "failed" THEN catchError(stats) ELSE stats
    /\ redis' = IF after.pc = "caching"
                THEN redis \cup {LatestKey(getEquipmentId(after.transformedData))}
                ELSE redis

\* A data message arrives: processMessage runs to its first await that waits.
ProcessMessage(message) ==
    /\ ~ContinuationPending
    /\ Len(messages) < MaxMessages
    /\ Len(requests) < MaxRequests
    /\ returned' = NoReturn
    /\ UNCHANGED <<config, reconfigVars, bridgeVars, enterpriseMap, metadataCache, emitted, handled,
                   lastValid, newestTs, dropped, mongo>>
    /\ LET i == Len(messages) + 1
           stats == [processingStats EXCEPT !.messagesProcessed = @ + 1]
           sourceType == determineSourceType(message.topic)
           equipmentId == extractEquipmentInfo(message)
           structure == resolveLocally(equipmentId)
           m == [NewMessage(message) EXCEPT !.sourceType = sourceType]
       IN  IF ~message.parseable
           THEN /\ messages' = Append(messages, [m EXCEPT !.pc = "failed",
                                                          !.failedAt = "parse"])
                /\ processingStats' = catchError(stats)
                /\ UNCHANGED <<requests, mqttOut, redis>>
           ELSE IF sourceType = NoSource \/ ~validateInput(sourceType, message)
           THEN /\ messages' = Append(messages, [m EXCEPT !.pc = "returned"])
                /\ processingStats' = stats
                /\ UNCHANGED <<requests, mqttOut, redis>>
           ELSE IF equipmentId # NoId /\ ~Truthy(structure) /\ config.discoveryEnabled
           THEN /\ messages' = Append(messages,
                                      [m EXCEPT !.pc = "waiting",
                                                !.equipmentId = equipmentId,
                                                !.request = Len(requests) + 1])
                /\ processingStats' = [stats EXCEPT !.discoveryRequests = @ + 1]
                /\ requestMetadata(equipmentId, i)
                /\ UNCHANGED redis
           ELSE /\ AfterResolution(i, [m EXCEPT !.equipmentId = equipmentId],
                                   structure, stats)
                /\ UNCHANGED <<requests, mqttOut>>

\* The requestMetadata promise of message i is resolved: processMessage continues.
Resume(i) ==
    /\ i \in DOMAIN messages
    /\ messages[i].pc = "waiting"
    /\ requests[messages[i].request].state = "resolved"
    /\ AfterResolution(i, messages[i], requests[messages[i].request].result,
                       processingStats)
    /\ returned' = NoReturn
    /\ UNCHANGED <<config, reconfigVars, bridgeVars, enterpriseMap, metadataCache, requests, emitted, mqttOut,
                   handled, lastValid, newestTs, dropped, mongo>>

\* persistData up to its await: the document is handed to insertOne.
Persist(i) ==
    /\ mongo' = Append(mongo, [ equipmentId |-> messages[i].transformedData.equipmentId,
                                dataType |-> messages[i].transformedData.dataType,
                                sourceType |-> messages[i].sourceType ])
    /\ messages' = [messages EXCEPT ![i].pc = "persisting", ![i].persisted = TRUE]
    /\ UNCHANGED <<processingStats, redis>>

\* The catch block runs for message i, whose statement `at` threw.
Fail(i, at) ==
    /\ messages' = [messages EXCEPT ![i].pc = "failed", ![i].failedAt = at]
    /\ processingStats' = catchError(processingStats)

\* Redis answers the SETEX of the latest data of message i.
CacheDone(i, ok) ==
    /\ ~ContinuationPending
    /\ i \in DOMAIN messages
    /\ messages[i].pc = "caching"
    /\ IF ~ok
       THEN Fail(i, "cache") /\ UNCHANGED <<redis, mongo>>
       ELSE IF Truthy(messages[i].structure) /\ ~IsFallback(messages[i].structure)
       THEN /\ redis' = redis \cup
                        {StructureKey(getEquipmentId(messages[i].transformedData))}
            /\ messages' = [messages EXCEPT ![i].pc = "cachingStructure"]
            /\ UNCHANGED <<processingStats, mongo>>
       ELSE Persist(i)
    /\ returned' = NoReturn
    /\ UNCHANGED <<config, reconfigVars, bridgeVars, enterpriseMap, metadataCache, requests, emitted, mqttOut,
                   handled, lastValid, newestTs, dropped>>

\* Redis answers the SETEX of the enterprise structure of message i.
StructureCacheDone(i, ok) ==
    /\ ~ContinuationPending
    /\ i \in DOMAIN messages
    /\ messages[i].pc = "cachingStructure"
    /\ IF ~ok
       THEN Fail(i, "cache") /\ UNCHANGED <<redis, mongo>>
       ELSE Persist(i)
    /\ returned' = NoReturn
    /\ UNCHANGED <<config, reconfigVars, bridgeVars, enterpriseMap, metadataCache, requests, emitted, mqttOut,
                   handled, lastValid, newestTs, dropped>>

\* Mutant of validTopics: no topic is skipped.
validTopicsUnfiltered(topics) == topics

\* publishTransformedData: a topic that fails validateTopicStructure is skipped.
validTopics(topics) == SelectSeq(topics, validateTopicStructure)

DataPublish(topic, transformedData) ==
    [ kind |-> "data", topic |-> topic, equipmentId |-> getEquipmentId(transformedData) ]

\* MongoDB answers the insertOne of message i; on success publishTransformedData
\* hands every topic that passes validateTopicStructure to mqttClient.publish.
PersistDone(i, ok) ==
    /\ ~ContinuationPending
    /\ i \in DOMAIN messages
    /\ messages[i].pc = "persisting"
    /\ IF ~ok
       THEN Fail(i, "persist") /\ UNCHANGED mqttOut
       ELSE LET valid == validTopics(messages[i].topics) IN
            /\ mqttOut' = mqttOut \o
                          [k \in 1..Len(valid) |->
                              DataPublish(valid[k], messages[i].transformedData)]
            /\ messages' = [messages EXCEPT ![i].pc = "publishing",
                                            ![i].published = valid]
            /\ UNCHANGED processingStats
    /\ returned' = NoReturn
    /\ UNCHANGED <<config, reconfigVars, bridgeVars, enterpriseMap, metadataCache, requests, emitted,
                   handled, lastValid, newestTs, dropped, redis, mongo>>

\* Mutant of PublishDone: a failed publish makes processMessage fail
\* (Promise.all in place of Promise.allSettled).
PublishDoneRejects(i, ok) ==
    /\ ~ContinuationPending
    /\ i \in DOMAIN messages
    /\ messages[i].pc = "publishing"
    /\ IF ok
       THEN messages' = [messages EXCEPT ![i].pc = "done"] /\ UNCHANGED processingStats
       ELSE /\ messages' = [messages EXCEPT ![i].pc = "failed",
                                            ![i].failedAt = "publish",
                                            ![i].publishErrors = TRUE]
            /\ processingStats' = catchError(processingStats)
    /\ returned' = NoReturn
    /\ UNCHANGED <<config, reconfigVars, bridgeVars, enterpriseMap, metadataCache, requests, emitted, mqttOut,
                   handled, lastValid, newestTs, dropped, redis, mongo>>

\* Every publish callback of message i has run, all without an error (ok) or
\* some with one: Promise.allSettled settles whatever the outcomes, and
\* processMessage returns.
PublishDone(i, ok) ==
    /\ ~ContinuationPending
    /\ i \in DOMAIN messages
    /\ messages[i].pc = "publishing"
    /\ messages' = [messages EXCEPT ![i].pc = "done", ![i].publishErrors = ~ok]
    /\ returned' = NoReturn
    /\ UNCHANGED <<config, reconfigVars, bridgeVars, enterpriseMap, metadataCache, requests, emitted, mqttOut,
                   handled, lastValid, newestTs, dropped, processingStats, redis, mongo>>

\* transformer.getAvailableFormats(): the names of the registered transformers.
getAvailableFormats == loading.registered

\* The record of a switchOutputFormat(formatName) call (history): the name it
\* was given and whether it threw.
SwitchCall(formatName, error) == [formatName |-> formatName, error |-> error]

\* Mutant of SwitchOutputFormat: the format is set before the name is checked.
SwitchOutputFormatUnchecked(formatName) ==
    /\ ~ContinuationPending
    /\ config' = [config EXCEPT !.outputFormat = formatName]
    /\ switched' = SwitchCall(formatName, formatName \notin getAvailableFormats)
    /\ returned' = NoReturn
    /\ UNCHANGED <<bridgeVars, enterpriseMap, metadataCache, requests, emitted, mqttOut,
                   handled, lastValid, newestTs, dropped, processingStats, redis,
                   messages, mongo, generation, loading>>

\* switchOutputFormat(formatName)
SwitchOutputFormat(formatName) ==
    /\ ~ContinuationPending
    /\ IF formatName \notin getAvailableFormats
       THEN /\ switched' = SwitchCall(formatName, TRUE)
            /\ UNCHANGED config
       ELSE /\ config' = [config EXCEPT !.outputFormat = formatName]
            /\ switched' = SwitchCall(formatName, FALSE)
    /\ returned' = NoReturn
    /\ UNCHANGED <<bridgeVars, enterpriseMap, metadataCache, requests, emitted, mqttOut,
                   handled, lastValid, newestTs, dropped, processingStats, redis,
                   messages, mongo, generation, loading>>

\* What reloadConfiguration() returned, with (history) the output format the
\* file named when it was read.
ReloadReturn(ok, outputFormat) ==
    [ equipmentId |-> NoId,
      result |-> [reloaded |-> ok, outputFormat |-> IF ok THEN outputFormat ELSE ""] ]

IsReloadReturn(value) == Has(value.result, "reloaded")

\* Mutant of ReloadConfiguration: a format chosen with switchOutputFormat
\* survives the reload.
ReloadConfigurationKeepsSwitch(ok, outputFormat, hasTemplates) ==
    /\ ~ContinuationPending
    /\ generation < MaxReloads
    /\ IF ok
       THEN /\ config' = [config EXCEPT
                             !.outputFormat = IF switched # NoSwitch /\ ~switched.error
                                              THEN @ ELSE outputFormat,
                             !.hasTemplates = hasTemplates]
            /\ generation' = generation + 1
            /\ switched' = NoSwitch
            /\ loading' = NewFlexibleTransformer
       ELSE UNCHANGED <<config, generation, switched, loading>>
    /\ returned' = ReloadReturn(ok, outputFormat)
    /\ UNCHANGED <<bridgeVars, enterpriseMap, metadataCache, requests, emitted, mqttOut,
                   handled, lastValid, newestTs, dropped, processingStats, redis,
                   messages, mongo>>

\* reloadConfiguration(): loadConfiguration has read the file.  When it threw
\* (~ok: the file is unreadable or is not JSON) nothing changes and false is
\* returned; otherwise the file holds a configuration object, this.config is
\* that object, and a new FlexibleTransformer and a new FlexibleTopicGenerator
\* are built from it.
ReloadConfiguration(ok, outputFormat, hasTemplates) ==
    /\ ~ContinuationPending
    /\ generation < MaxReloads
    /\ IF ok
       THEN /\ config' = [config EXCEPT !.outputFormat = outputFormat,
                                        !.hasTemplates = hasTemplates]
            /\ generation' = generation + 1
            /\ switched' = NoSwitch
            /\ loading' = NewFlexibleTransformer
       ELSE UNCHANGED <<config, generation, switched, loading>>
    /\ returned' = ReloadReturn(ok, outputFormat)
    /\ UNCHANGED <<bridgeVars, enterpriseMap, metadataCache, requests, emitted, mqttOut,
                   handled, lastValid, newestTs, dropped, processingStats, redis,
                   messages, mongo>>

\* A file operation awaited by init() of the current transformer completes:
\* init() runs on to the next one it awaits.
LoadTransformer ==
    /\ ~ContinuationPending
    /\ loading.awaits # "nothing"
    /\ loading' = IF loading.awaits = "access"
                  THEN loadTransformer(loading.registered, loading.at)
                  ELSE init(loading.registered, loading.at + 1)
    /\ returned' = NoReturn
    /\ UNCHANGED <<bridgeVars, config, generation, switched, enterpriseMap,
                   metadataCache, requests,
                   emitted, mqttOut, handled, lastValid, newestTs, dropped,
                   processingStats, redis, messages, mongo>>

(***************************************************************************)
(* Actions of the registry                                                 *)
(***************************************************************************)

\* What the metadata schema document calls a malformed announcement (history only):
\* not JSON, a required key missing, or a location key the schema does not list.
Malformed(metadata) ==
    \/ ~metadata.parseable
    \/ metadata.publisherId = NoPublisher
    \/ metadata.timestamp = 0
    \/ metadata.equipmentId = NoId
    \/ metadata.location = NoLocation
    \/ \E k \in DOMAIN metadata.location : k \notin LocationKeys

\* An MQTT message arrives on a metadata topic.
MetadataMessage(metadata) ==
    /\ ~ContinuationPending
    /\ isDiscoveryActive
    /\ handled < MaxAnnouncements
    /\ handled' = handled + 1
    /\ dropped' = IF Malformed(metadata) THEN dropped + 1 ELSE dropped
    /\ processingStats' = CountMetadataMessage(processingStats, metadata)
    /\ handleMetadataMessage(metadata)
    /\ returned' = NoReturn
    /\ UNCHANGED <<config, reconfigVars, bridgeVars, mqttOut, pipelineVars>>

\* Mutant of Lookup: the fallback computed for an unknown id is stored.
LookupStoresFallback(equipmentId) ==
    /\ ~ContinuationPending
    /\ returned' = [ equipmentId |-> equipmentId,
                     result |-> getEnterpriseStructure(enterpriseMap, equipmentId) ]
    /\ enterpriseMap' = MapSet(enterpriseMap, equipmentId,
                               getEnterpriseStructure(enterpriseMap, equipmentId))
    /\ UNCHANGED <<config, reconfigVars, bridgeVars, metadataCache, requests, emitted, mqttOut,
                   handled, lastValid, newestTs, dropped, processingStats, redis, pipelineVars>>

\* A caller outside the pipeline reads the registry.
Lookup(equipmentId) ==
    /\ ~ContinuationPending
    /\ returned' = [ equipmentId |-> equipmentId,
                       result |-> getEnterpriseStructure(enterpriseMap, equipmentId) ]
    /\ UNCHANGED <<config, reconfigVars, bridgeVars, enterpriseMap, metadataCache, requests, emitted, mqttOut,
                   handled, lastValid, newestTs, dropped, processingStats, redis, pipelineVars>>

\* A caller outside the pipeline asks the registry to resolve an id.
Resolve(equipmentId) ==
    /\ ~ContinuationPending
    /\ Len(requests) < MaxRequests
    /\ requestMetadata(equipmentId, 0)
    /\ returned' = NoReturn
    /\ UNCHANGED <<config, reconfigVars, bridgeVars, enterpriseMap, metadataCache, emitted, handled,
                   lastValid, newestTs, dropped, processingStats, redis, pipelineVars>>

\* Mutant of Timeout: the fallback the timer builds is stored in the registry.
TimeoutStoresFallback(i) ==
    /\ ~ContinuationPending
    /\ i \in DOMAIN requests
    /\ requests[i].timer
    /\ requests' = [requests EXCEPT ![i] = timeoutHandler(requests[i])]
    /\ enterpriseMap' = MapSet(enterpriseMap, requests[i].equipmentId,
                               getFallbackStructure(requests[i].equipmentId))
    /\ returned' = NoReturn
    /\ UNCHANGED <<config, reconfigVars, bridgeVars, metadataCache, emitted, mqttOut,
                   handled, lastValid, newestTs, dropped, processingStats, redis, pipelineVars>>

\* The discovery timer of request i fires.
Timeout(i) ==
    /\ ~ContinuationPending
    /\ i \in DOMAIN requests
    /\ requests[i].timer
    /\ requests' = [requests EXCEPT ![i] = timeoutHandler(requests[i])]
    /\ returned' = NoReturn
    /\ UNCHANGED <<config, reconfigVars, bridgeVars, enterpriseMap, metadataCache, emitted, mqttOut,
                   handled, lastValid, newestTs, dropped, processingStats, redis, pipelineVars>>

EmptyMap == << >>

(***************************************************************************)
(* IgnitionMQTTBridge                                                      *)
(***************************************************************************)
\* The lengths the bridge trims its lists to.
TagTrendPoints == 1000        \* per tag, in updateTagValue
EquipmentTrendPoints == 500   \* per equipment, in updateTrendData
AlarmEntries == 100           \* in generateSCADAAlerts

\* The fields of a parsed UNS message the bridge reads: source.equipmentId,
\* whether data.equipment is present, equipment.status,
\* equipment.performance.efficiency, process.parameters.temperature.value and
\* maintenance.nextMaintenanceDue.
UNSData(equipmentId, equipment, status, efficiency, temperature, nextMaintenanceDue) ==
    [ equipmentId |-> equipmentId, equipment |-> equipment, status |-> status,
      efficiency |-> efficiency, temperature |-> temperature,
      nextMaintenanceDue |-> nextMaintenanceDue ]

UNSMessage(topic, data) == [topic |-> topic, data |-> data]

\* Mutant of KeepLast: the oldest n entries are kept.
KeepFirst(list, n) == IF Len(list) > n THEN SubSeq(list, 1, n) ELSE list

\* if (list.length > n) list.splice(0, list.length - n), and
\* if (list.length > n) list = list.slice(-n)
KeepLast(list, n) ==
    IF Len(list) > n THEN SubSeq(list, Len(list) - n + 1, Len(list)) ELSE list

\* The bridge's lists with their arrival counts.
Bridge(data, counts) == [scadaData |-> data, arrivals |-> counts]

\* A point is pushed to the list scadaData.trends holds under key (created on
\* first use), which is then trimmed to points entries.  A point is identified
\* by its arrival number in its list.
pushTrend(b, key, points) ==
    LET n == IF key \in DOMAIN b.arrivals.trends THEN b.arrivals.trends[key] + 1 ELSE 1
        trends == IF key \in DOMAIN b.scadaData.trends
                  THEN b.scadaData.trends[key] ELSE << >>
    IN  Bridge([b.scadaData EXCEPT
                   !.trends = MapSet(@, key, KeepLast(Append(trends, n), points))],
               [b.arrivals EXCEPT !.trends = MapSet(@, key, n)])

\* updateTagValue(area, equipmentId, tagPath, value); the key is the full tag
\* path UNS/<area>/<equipmentId>/<tagPath>.
updateTagValue(b, area, equipmentId, tagPath) ==
    pushTrend(b, <<"UNS", area, equipmentId, tagPath>>, TagTrendPoints)

\* updateIgnitionTags(area, workUnit, dataType, data) for the data types
\* equipment and process.
updateIgnitionTags(b, area, workUnit, dataType, data) ==
    LET equipmentId == Or(data.equipmentId, workUnit) IN
    IF dataType = "equipment" /\ data.equipment
    THEN updateTagValue(
             updateTagValue(
                 updateTagValue(b, area, equipmentId, "Status/State"),
                 area, equipmentId, "Status/Availability"),
             area, equipmentId, "Status/Efficiency")
    ELSE IF dataType = "process" /\ data.temperature # NoNumber
    THEN updateTagValue(b, area, equipmentId, "Process/Temperature")
    ELSE b

\* The alerts generateSCADAAlerts raises for a message, in its order.
Alerts(data) ==
    (IF data.temperature # NoNumber /\ data.temperature > 80
     THEN <<"HighTemperature">> ELSE << >>)
    \o (IF data.equipment /\ data.efficiency # NoNumber /\ data.efficiency < 70
        THEN <<"LowEfficiency">> ELSE << >>)
    \o (IF data.nextMaintenanceDue # NoNumber /\ data.nextMaintenanceDue < 24
        THEN <<"MaintenanceDue">> ELSE << >>)
    \o (IF data.equipment /\ data.status = "FAULT"
        THEN <<"EquipmentFault">> ELSE << >>)

\* generateSCADAAlerts(data): every alert is pushed to scadaData.alarms, then
\* the list is trimmed.  An alarm is identified by its arrival number.
generateSCADAAlerts(b, data) ==
    IF data.equipmentId = NoId THEN b
    ELSE LET n == b.arrivals.alarms
             alerts == Alerts(data)
             alarms == b.scadaData.alarms \o [k \in 1..Len(alerts) |-> n + k]
         IN  Bridge([b.scadaData EXCEPT !.alarms = KeepLast(alarms, AlarmEntries)],
                    [b.arrivals EXCEPT !.alarms = n + Len(alerts)])

\* updateTrendData(data); the key is trends_<equipmentId>.
updateTrendData(b, data) ==
    IF data.equipmentId = NoId THEN b
    ELSE pushTrend(b, <<"trends", data.equipmentId>>, EquipmentTrendPoints)

\* How many messages of a work unit processUNSMessage has handled.
Handled(workUnit) == IF workUnit \in DOMAIN unsHandled THEN unsHandled[workUnit] ELSE 0

\* processUNSMessage(topic, message) of a message that is JSON: for a topic
\* uns/<area>/<workUnit>/<dataType> the tags are updated, the alerts raised and
\* the trend point stored.  What it publishes goes to the broker and is not
\* kept by the bridge.
ProcessUNSMessage(message) ==
    LET topic == message.topic
        workUnit == topic[3]
        b == Bridge(scadaData, arrivals)
        after == IF Len(topic) >= 4 /\ topic[1] = "uns"
                 THEN updateTrendData(
                          generateSCADAAlerts(
                              updateIgnitionTags(b, topic[2], workUnit, topic[4],
                                                 message.data),
                              message.data),
                          message.data)
                 ELSE b
    IN  /\ Handled(workUnit) <
              (IF workUnit = "LINE_01" THEN MaxUNSMessages ELSE MaxOtherMessages)
        /\ unsHandled' = MapSet(unsHandled, workUnit, Handled(workUnit) + 1)
        /\ scadaData' = after.scadaData
        /\ arrivals' = after.arrivals
        /\ UNCHANGED <<config, reconfigVars, registryVars, historyVars, pipelineVars,
                       mqttOut, returned, processingStats, redis>>

Configs ==
    [ discoveryMode : {"dynamic", "static"},
      fallbackMode : {"adaptive", "static"},
      discoveryEnabled : BOOLEAN,
      outputFormat : {"isa95-part2", "isa95-legacy", UnlistedFormat},
      locationHint : {"topic.parts[2]", Undefined},
      hasTemplates : BOOLEAN ]

Init ==
    /\ config \in Configs
    /\ enterpriseMap = EmptyMap
    /\ metadataCache = EmptyMap
    /\ requests = << >>
    /\ emitted = 0
    /\ mqttOut = << >>
    /\ handled = 0
    /\ lastValid = EmptyMap
    /\ newestTs = EmptyMap
    /\ dropped = 0
    /\ returned = NoReturn
    /\ processingStats = [ messagesProcessed |-> 0, transformationErrors |-> 0,
                           discoveryRequests |-> 0 ]
    /\ redis = {}
    /\ messages = << >>
    /\ mongo = << >>
    /\ generation = 0
    /\ loading = LoadedFlexibleTransformer
    /\ scadaData = [alarms |-> << >>, trends |-> EmptyMap]
    /\ arrivals = [alarms |-> 0, trends |-> EmptyMap]
    /\ unsHandled = EmptyMap
    /\ switched = NoSwitch

NextRegistry ==
    \/ \E metadata \in Announcements : MetadataMessage(metadata)
    \/ \E equipmentId \in RequestIds : Lookup(equipmentId)
    \/ \E equipmentId \in RequestIds : Resolve(equipmentId)
    \/ \E i \in DOMAIN requests : Timeout(i)

\* The registry on its own: the pipeline's discovery switch plays no part.
InitRegistry ==
    /\ Init
    /\ config.discoveryEnabled
    /\ config.outputFormat = "isa95-part2"
    /\ config.locationHint = "topic.parts[2]"
    /\ config.hasTemplates

SpecRegistry == InitRegistry /\ [][NextRegistry]_vars

\* The registry asked about ids nobody announces: lookups and resolve calls that
\* end in the fallback.
InitFallback == InitRegistry

NextFallback ==
    \/ \E equipmentId \in FallbackIds : Lookup(equipmentId)
    \/ \E equipmentId \in FallbackIds : Resolve(equipmentId)
    \/ \E i \in DOMAIN requests : Timeout(i)

SpecFallback == InitFallback /\ [][NextFallback]_vars

\* setTimeout: an armed timer that is not cleared does fire.
TimerFairness == \A i \in 1..MaxRequests : WF_vars(Timeout(i))

FairSpecRegistry == SpecRegistry /\ TimerFairness

\* The pipeline with one publisher, which announces one piece of equipment.
PipelineAnnouncements ==
    {metadata \in ValidAnnouncements :
        /\ metadata.publisherId = "plc-1"
        /\ metadata.timestamp = 1
        /\ metadata.equipmentId = ID_PROD}

NextPipeline ==
    \/ \E message \in DataMessages : ProcessMessage(message)
    \/ \E i \in DOMAIN messages : Resume(i)
    \/ \E i \in DOMAIN messages, ok \in BOOLEAN : CacheDone(i, ok)
    \/ \E i \in DOMAIN messages, ok \in BOOLEAN : StructureCacheDone(i, ok)
    \/ \E i \in DOMAIN messages, ok \in BOOLEAN : PersistDone(i, ok)
    \/ \E i \in DOMAIN messages : PublishDone(i, TRUE)
    \/ \E metadata \in PipelineAnnouncements : MetadataMessage(metadata)
    \/ \E i \in DOMAIN requests : Timeout(i)

InitPipeline == Init /\ config.hasTemplates

SpecPipeline == InitPipeline /\ [][NextPipeline]_vars

\* The publish path: two publishers place the same equipment differently, the
\* registry's fallback is on, discovery requests are off, and the output formats
\* are configured with or without topic templates.
PublishAnnouncements ==
    {metadata \in ValidAnnouncements :
        metadata.timestamp = 1 /\ metadata.equipmentId = ID_PROD}

PublishMessages ==
    {message \in DataMessages :
        message.parseable /\ ~message.schemaError /\ message.rawData # Null}

InitPublish ==
    /\ Init
    /\ config.discoveryMode = "dynamic"
    /\ config.fallbackMode = "adaptive"
    /\ ~config.discoveryEnabled
    /\ config.outputFormat = "isa95-part2"
    /\ config.locationHint = "topic.parts[2]"

NextPublish ==
    \/ \E message \in PublishMessages : ProcessMessage(message)
    \/ \E i \in DOMAIN messages, ok \in BOOLEAN : CacheDone(i, ok)
    \/ \E i \in DOMAIN messages, ok \in BOOLEAN : StructureCacheDone(i, ok)
    \/ \E i \in DOMAIN messages, ok \in BOOLEAN : PersistDone(i, ok)
    \/ \E i \in DOMAIN messages, ok \in BOOLEAN : PublishDone(i, ok)
    \/ \E metadata \in PublishAnnouncements : MetadataMessage(metadata)

SpecPublish == InitPublish /\ [][NextPublish]_vars

\* Reconfiguration at run time.  The registry learns nothing (static discovery
\* mode) and every write succeeds.
ReconfigMessages ==
    {message \in DataMessages :
        /\ message.parseable /\ ~message.schemaError /\ message.rawData # Null
        /\ message.topic = T_PROD}

SwitchFormats == transformers \cup {UnlistedFormat}

InitReconfigure ==
    /\ Init
    /\ config.discoveryMode = "static"
    /\ config.outputFormat = "isa95-part2"
    /\ config.locationHint = "topic.parts[2]"
    /\ config.hasTemplates

\* Switching the output format while messages are processed; an unknown id gets
\* the registry's fallback at once.
InitSwitch ==
    /\ InitReconfigure
    /\ config.fallbackMode = "adaptive"
    /\ ~config.discoveryEnabled

NextSwitch ==
    \/ \E message \in ReconfigMessages : ProcessMessage(message)
    \/ \E i \in DOMAIN messages : CacheDone(i, TRUE)
    \/ \E i \in DOMAIN messages : PersistDone(i, TRUE)
    \/ \E i \in DOMAIN messages : PublishDone(i, TRUE)
    \/ \E formatName \in SwitchFormats : SwitchOutputFormat(formatName)

SpecSwitch == InitSwitch /\ [][NextSwitch]_vars

\* Reloading the configuration while messages are processed; an unknown id is
\* resolved by a discovery request, which times out.
InitReload ==
    /\ InitReconfigure
    /\ config.fallbackMode = "static"
    /\ config.discoveryEnabled

NextReload ==
    \/ \E message \in ReconfigMessages : ProcessMessage(message)
    \/ \E i \in DOMAIN requests : Timeout(i)
    \/ \E i \in DOMAIN messages : Resume(i)
    \/ \E i \in DOMAIN messages : CacheDone(i, TRUE)
    \/ \E i \in DOMAIN messages : PersistDone(i, TRUE)
    \/ \E i \in DOMAIN messages : PublishDone(i, TRUE)
    \/ \E ok \in BOOLEAN, outputFormat \in {"isa95-part2", "isa95-legacy"} :
          ReloadConfiguration(ok, outputFormat, TRUE)
    \/ LoadTransformer

SpecReload == InitReload /\ [][NextReload]_vars

\* Switching the output format while messages wait on a discovery request,
\* which times out.
InitHandover ==
    /\ Init
    /\ config.discoveryMode = "static"
    /\ config.fallbackMode = "static"
    /\ config.discoveryEnabled
    /\ config.outputFormat \in {"isa95-part2", "isa95-legacy"}
    /\ config.locationHint = "topic.parts[2]"
    /\ config.hasTemplates

HandoverFormats == {"isa95-part2", "isa95-legacy"}

NextHandover ==
    \/ \E message \in ReconfigMessages : ProcessMessage(message)
    \/ \E i \in DOMAIN requests : Timeout(i)
    \/ \E i \in DOMAIN messages : Resume(i)
    \/ \E i \in DOMAIN messages : CacheDone(i, TRUE)
    \/ \E i \in DOMAIN messages : PersistDone(i, TRUE)
    \/ \E i \in DOMAIN messages : PublishDone(i, TRUE)
    \/ \E formatName \in HandoverFormats : SwitchOutputFormat(formatName)

SpecHandover == InitHandover /\ [][NextHandover]_vars

\* Switching the output format and reloading the configuration while messages
\* are processed.
NextReconfigure ==
    \/ \E message \in ReconfigMessages : ProcessMessage(message)
    \/ \E i \in DOMAIN messages : CacheDone(i, TRUE)
    \/ \E i \in DOMAIN messages : PersistDone(i, TRUE)
    \/ \E i \in DOMAIN messages : PublishDone(i, TRUE)
    \/ \E formatName \in HandoverFormats : SwitchOutputFormat(formatName)
    \/ \E ok \in BOOLEAN, outputFormat \in HandoverFormats :
          ReloadConfiguration(ok, outputFormat, TRUE)
    \/ LoadTransformer

SpecReconfigure == InitSwitch /\ [][NextReconfigure]_vars

\* Classification of inbound topics; an unknown id gets the registry's fallback
\* at once and every write succeeds or fails.
ClassifyMessages ==
    { DataMessage(topic, TRUE, FALSE, RawData(ID_X, TRUE, FALSE)) :
          topic \in {T_X, T_OTHER, T_NESTED, T_EMPTY} }

NextClassify ==
    \/ \E message \in ClassifyMessages : ProcessMessage(message)
    \/ \E i \in DOMAIN messages, ok \in BOOLEAN : CacheDone(i, ok)
    \/ \E i \in DOMAIN messages, ok \in BOOLEAN : PersistDone(i, ok)
    \/ \E i \in DOMAIN messages, ok \in BOOLEAN : PublishDone(i, ok)

SpecClassify == InitSwitch /\ [][NextClassify]_vars

\* The bridge handles messages of three work units: a faulty line that raises
\* four alerts with every message, a packaging unit that reports a high
\* temperature, and a conveyor whose messages carry no source.equipmentId.
UNSMessages ==
    { UNSMessage(<<"uns", "PRODUCTION", "LINE_01", "equipment">>,
                 UNSData("LINE_01", TRUE, "FAULT", 60, 85, 12)),
      UNSMessage(<<"uns", "PACKAGING", "PKG_01", "process">>,
                 UNSData("PKG_01", FALSE, Undefined, NoNumber, 85, NoNumber)),
      UNSMessage(<<"uns", "PRODUCTION", "CONV_01", "equipment">>,
                 UNSData(NoId, TRUE, "RUNNING", 90, NoNumber, NoNumber)) }

InitBridge == InitSwitch

NextBridge == \E message \in UNSMessages : ProcessUNSMessage(message)

SpecBridge == InitBridge /\ [][NextBridge]_vars

\* Routing of observations of every data type, before and after an announcement
\* of their equipment.
RoutePayloads ==
    { WithStatus(RawData(ID_PROD, TRUE, FALSE), "RUNNING", FALSE),
      WithStatus(RawData(ID_PROD, TRUE, FALSE), "RUNNING", TRUE),
      WithStatus(RawData(ID_PROD, TRUE, FALSE), "MAINTENANCE", FALSE),
      WithStatus(RawData(ID_PROD, TRUE, TRUE), "RUNNING", FALSE) }

RouteMessages == {DataMessage(T_PROD, TRUE, FALSE, rawData) : rawData \in RoutePayloads}

InitRoute == InitPublish /\ config.hasTemplates

NextRoute ==
    \/ \E metadata \in PipelineAnnouncements : MetadataMessage(metadata)
    \/ \E message \in RouteMessages : ProcessMessage(message)
    \/ \E i \in DOMAIN messages : CacheDone(i, TRUE)
    \/ \E i \in DOMAIN messages : StructureCacheDone(i, TRUE)
    \/ \E i \in DOMAIN messages : PersistDone(i, TRUE)
    \/ \E i \in DOMAIN messages : PublishDone(i, TRUE)

SpecRoute == InitRoute /\ [][NextRoute]_vars

\* The transformer on observations with every kind of status, efficiency and
\* quality counts.  Nothing is announced: the hierarchy is the fallback in
\* adaptive mode and absent otherwise.
Running(efficiency) ==
    WithRuntimeHours(
        WithEfficiency(WithStatus(RawData(ID_PROD, TRUE, FALSE), "RUNNING", FALSE),
                       efficiency),
        100)

TransformPayloads ==
    { WithQuality(Running(92), 950, 50),
      WithQuality(Running(92), 0, 50),
      Running(0),
      WithEfficiency(WithStatus(RawData(ID_PROD, FALSE, FALSE), "IDLE", FALSE), 92),
      WithoutPower(WithStatus(RawData(ID_PROD, TRUE, FALSE), "MAINTENANCE", FALSE)),
      WithSensorsRuntimeHours(WithStatus(RawData(ID_PROD, TRUE, FALSE), "RUNNING", TRUE),
                              8) }

TransformMessages ==
    {DataMessage(T_PROD, TRUE, FALSE, rawData) : rawData \in TransformPayloads}

InitTransform == InitReconfigure /\ ~config.discoveryEnabled

NextTransform ==
    \/ \E message \in TransformMessages : ProcessMessage(message)
    \/ \E i \in DOMAIN messages : CacheDone(i, TRUE)
    \/ \E i \in DOMAIN messages : PersistDone(i, TRUE)
    \/ \E i \in DOMAIN messages : PublishDone(i, TRUE)

SpecTransform == InitTransform /\ [][NextTransform]_vars

(***************************************************************************)
(* Properties of the registry                                              *)
(***************************************************************************)

\* A step that handled no metadata message (a resolve call, a timer, a lookup).
NoMetadataStep == handled' = handled

\* C1: once an announcement has registered a hierarchy for an id, no resolve
\* call, timer or lookup changes the entry of that id, and a lookup of that id
\* returns the non-fallback hierarchy built from the announcement that
\* registered it.
C1_AuthorityIsKept ==
    [][ /\ NoMetadataStep =>
             \A e \in DOMAIN enterpriseMap :
                 e \in DOMAIN enterpriseMap' /\ enterpriseMap'[e] = enterpriseMap[e]
        /\ returned'.equipmentId \in DOMAIN enterpriseMap' =>
             /\ ~IsFallback(returned'.result)
             /\ returned'.result.source = lastValid'[returned'.equipmentId].publisherId
             /\ \A k \in DOMAIN lastValid'[returned'.equipmentId].location :
                   returned'.result[k] = lastValid'[returned'.equipmentId].location[k]
      ]_vars

\* C1 witness: ID_PROD was announced, a resolve call made afterwards returned the
\* registered entry at once, and a lookup of ID_PROD has just returned.
C1_Witness ==
    /\ ID_PROD \in DOMAIN enterpriseMap
    /\ returned.equipmentId = ID_PROD
    /\ \E i \in DOMAIN requests :
          /\ requests[i].equipmentId = ID_PROD
          /\ requests[i].state = "resolved"
          /\ requests[i].result = enterpriseMap[ID_PROD]

\* C2: every resolve call completes.  A timer that fires completes its call with
\* a fallback hierarchy, and under fairness of the timers no call stays pending.
C2_ResolveCompletes ==
    /\ [][ \A i \in DOMAIN requests :
              (requests[i].timer /\ ~requests'[i].timer /\ NoMetadataStep) =>
                  /\ requests'[i].state = "resolved"
                  /\ IsFallback(requests'[i].result)
                  /\ requests'[i].result.workUnit = requests[i].equipmentId ]_vars
    /\ \A i \in 1..MaxRequests :
          (i \in DOMAIN requests) ~> (i \in DOMAIN requests /\ requests[i].state = "resolved")

\* C2 witness: a call for the never-announced id was completed by its timer.
C2_Witness ==
    \E i \in DOMAIN requests :
        /\ requests[i].equipmentId = ID_X
        /\ requests[i].state = "resolved"
        /\ IsFallback(requests[i].result)

\* C3 (as claimed): the entry of an id is never the one of an announcement older
\* than an announcement already applied to that id.
C3_NewerAnnouncementWins ==
    \A e \in DOMAIN enterpriseMap :
        /\ enterpriseMap[e].source = lastValid[e].publisherId
        /\ lastValid[e].timestamp >= newestTs[e]

\* C4: the registry is keyed by equipment id: it holds an entry for exactly the
\* announced ids, each carrying the location and the source of the announcement
\* for that id that arrived last, whoever published it.
C4_KeyedByEquipmentId ==
    /\ DOMAIN enterpriseMap = DOMAIN lastValid
    /\ \A e \in DOMAIN enterpriseMap :
          /\ lastValid[e].equipmentId = e
          /\ enterpriseMap[e].source = lastValid[e].publisherId
          /\ \A k \in DOMAIN lastValid[e].location :
                enterpriseMap[e][k] = lastValid[e].location[k]

\* C4 witness: both publishers announced ID_PROD, plc-2 last.
C4_Witness ==
    /\ DOMAIN metadataCache = Publishers
    /\ \A p \in Publishers : metadataCache[p].equipmentId = ID_PROD
    /\ enterpriseMap[ID_PROD].source = "plc-2"

\* C5: a malformed announcement is dropped with no effect on the registry map,
\* the raw-announcement cache, the emitted events and the pending resolve calls;
\* a well-formed one arriving after it is applied and announced.
C5_MalformedIsDropped ==
    [][ /\ dropped' > dropped =>
             UNCHANGED <<enterpriseMap, metadataCache, emitted, requests>>
        /\ (handled' > handled /\ dropped' = dropped) =>
             /\ emitted' = emitted + 1
             /\ DOMAIN enterpriseMap' # {} ]_vars

\* C5 witness: a malformed message was dropped while a resolve call is pending,
\* and a well-formed announcement was applied.
C5_Witness ==
    /\ dropped > 0
    /\ emitted > 0
    /\ \E i \in DOMAIN requests : requests[i].state = "pending"

\* C7 (as claimed): a lookup returns the stored entry, or nothing when the id was
\* never announced.
C7_LookupReturnsEntryOrNothing ==
    returned.equipmentId # NoId =>
        returned.result = IF returned.equipmentId \in DOMAIN enterpriseMap
                          THEN enterpriseMap[returned.equipmentId]
                          ELSE Null

\* C7 (amended): a lookup changes nothing and publishes nothing; it returns the
\* stored entry, or for an id without entry a fallback hierarchy when
\* fallbackMode is adaptive and nothing otherwise.
C7_LookupIsPureRead ==
    [][ returned'.equipmentId # NoId =>
          /\ UNCHANGED <<enterpriseMap, metadataCache, requests, emitted, mqttOut, redis>>
          /\ IF returned'.equipmentId \in DOMAIN enterpriseMap
             THEN returned'.result = enterpriseMap[returned'.equipmentId]
             ELSE IF config.fallbackMode = "adaptive"
             THEN /\ IsFallback(returned'.result)
                  /\ returned'.result.workUnit = returned'.equipmentId
                  /\ returned'.result.source = "fallback"
             ELSE returned'.result = Null ]_vars

\* C7 witness: a lookup of the never-announced id returned a fallback, while
\* another id is registered.
C7_Witness ==
    /\ returned.equipmentId = ID_X
    /\ IsFallback(returned.result)
    /\ DOMAIN enterpriseMap # {}

(***************************************************************************)
(* Properties of the pipeline                                              *)
(***************************************************************************)

\* Message m has left the hierarchy-resolution step of processMessage.
PastResolution(m) ==
    \/ m.pc \in {"caching", "cachingStructure", "persisting", "publishing", "done"}
    \/ m.pc = "failed" /\ m.failedAt # "parse"

\* C6: when an observation arrives for an equipment id that has no registry
\* entry and discovery is enabled, one message is published on
\* discovery/request/<equipmentId> and the discovery-requests counter increases
\* by one, before any fallback is used for the observation.
C6_DiscoveryRequested ==
    [][ Len(messages') > Len(messages) =>
          LET m == messages'[Len(messages')] IN
          ( /\ m.equipmentId # NoId
            /\ m.equipmentId \notin DOMAIN enterpriseMap
            /\ config.discoveryEnabled )
          => /\ m.pc = "waiting"
             /\ processingStats'.discoveryRequests =
                    processingStats.discoveryRequests + 1
             /\ mqttOut' = Append(mqttOut, DiscoveryRequest(m.equipmentId)) ]_vars

C9_PublishedDespiteWriteFailure ==
    \A i \in DOMAIN messages :
        (messages[i].pc = "failed" /\ messages[i].failedAt \in {"cache", "persist"})
        => /\ Len(messages[i].published) > 0
           /\ messages[i].published =
                  SelectSeq(messages[i].topics, validateTopicStructure)

\* C10: when the transform of a message fails, the catch block of processMessage
\* takes the error: the transform-error counter goes up by exactly one in that
\* step, nothing is sent to Redis, MongoDB or MQTT for the message in that step
\* or later, and the message stays as it is from then on.
C10_TransformFailureIsCountedAndDropped ==
    [][ \A i \in DOMAIN messages' :
          LET m == messages'[i] IN
          m.failedAt = "transform" =>
              /\ m.pc = "failed"
              /\ ~m.cached /\ ~m.persisted /\ m.published = << >>
              /\ IF i \in DOMAIN messages /\ messages[i].failedAt = "transform"
                 THEN m = messages[i]
                 ELSE /\ processingStats'.transformationErrors =
                             processingStats.transformationErrors + 1
                      /\ redis' = redis /\ mongo' = mongo /\ mqttOut' = mqttOut ]_vars

\* A message failed in the transform as it arrived, and a message that arrived
\* after it was transformed, stored and published.
C10_Witness ==
    \E i, j \in DOMAIN messages :
        /\ i < j
        /\ messages[i].failedAt = "transform"
        /\ messages[i].request = 0
        /\ processingStats.transformationErrors = 1
        /\ messages[j].pc = "done"
        /\ Len(messages[j].published) > 0

\* C11: an observation of a known source that the source's schema rejects is
\* dropped before the transform: in the step that handles it the transform-error
\* counter does not move and nothing is sent to Redis, MongoDB or MQTT, the call
\* returns without an error, and the message stays as it is from then on.
C11_InvalidObservationIsDropped ==
    [][ \A i \in DOMAIN messages' :
          LET m == messages'[i] IN
          (m.sourceType # NoSource /\ m.schemaError) =>
              /\ m.pc = "returned"
              /\ m.request = 0
              /\ ~m.cached /\ ~m.persisted /\ m.published = << >>
              /\ IF i \in DOMAIN messages
                 THEN m = messages[i]
                 ELSE /\ processingStats'.transformationErrors =
                             processingStats.transformationErrors
                      /\ processingStats'.messagesProcessed =
                             processingStats.messagesProcessed + 1
                      /\ redis' = redis /\ mongo' = mongo /\ mqttOut' = mqttOut
                      /\ requests' = requests ]_vars

\* A rejected observation was dropped without an error being counted, and an
\* observation that arrived after it was transformed, stored and published.
C11_Witness ==
    \E i, j \in DOMAIN messages :
        /\ i < j
        /\ messages[i].schemaError
        /\ messages[i].pc = "returned"
        /\ processingStats.transformationErrors = 0
        /\ messages[j].pc = "done"
        /\ Len(messages[j].published) > 0

(***************************************************************************)
(* Properties of the publish path                                          *)
(***************************************************************************)

\* Sequence membership
InSeq(x, seq) == \E k \in DOMAIN seq : seq[k] = x

\* The data messages handed to mqttClient.publish so far
PublishedTopics == {mqttOut[k].topic : k \in {n \in DOMAIN mqttOut : mqttOut[n].kind = "data"}}

\* C12: no topic that fails validateTopicStructure is ever published; of the
\* route set of a message that reached publishing, a destination with an invalid
\* topic is skipped and every other destination is published.
C12_OnlyValidTopicsPublished ==
    /\ \A topic \in PublishedTopics : validateTopicStructure(topic)
    /\ \A i \in DOMAIN messages :
          messages[i].pc \in {"publishing", "done"} =>
              \A t \in DOMAIN messages[i].topics :
                  LET topic == messages[i].topics[t] IN
                  /\ validateTopicStructure(topic) =>
                        (InSeq(topic, messages[i].published) /\ topic \in PublishedTopics)
                  /\ ~validateTopicStructure(topic) =>
                        (~InSeq(topic, messages[i].published) /\ topic \notin PublishedTopics)

\* A message was published whose route set has an invalid topic and a valid one.
C12_Witness ==
    \E i \in DOMAIN messages :
        /\ messages[i].pc = "done"
        /\ Len(messages[i].published) > 0
        /\ \E t \in DOMAIN messages[i].topics :
              ~validateTopicStructure(messages[i].topics[t])

\* C13: when a publish of a route set fails, a publish was still attempted for
\* every valid topic of the set, and processMessage does not fail for the
\* message: it returns normally and the catch block counts no error for it.
C13_PublishFailuresAreIndependent ==
    /\ \A i \in DOMAIN messages :
          messages[i].publishErrors =>
              /\ messages[i].pc = "done"
              /\ messages[i].failedAt = ""
              /\ \A t \in DOMAIN messages[i].topics :
                    validateTopicStructure(messages[i].topics[t]) =>
                        messages[i].topics[t] \in PublishedTopics
    /\ processingStats.transformationErrors =
           Cardinality({i \in DOMAIN messages : messages[i].pc = "failed"
                                               /\ ~messages[i].publishErrors})

\* A publish failed for a message with several valid topics.
C13_Witness ==
    \E i \in DOMAIN messages :
        /\ messages[i].publishErrors
        /\ messages[i].pc = "done"
        /\ Len(messages[i].published) > 1

\* Message m has a route set: generateTopics has run for it.
Routed(m) == m.pc \in {"caching", "cachingStructure", "persisting", "publishing", "done"}
             \/ (m.pc = "failed" /\ m.failedAt \in {"cache", "persist"})

\* C14: every topic generateTopics returns passes validateTopicStructure,
\* whatever the hierarchy, the document and the configured template.
C14_EveryRoutedTopicIsValid ==
    \A i \in DOMAIN messages :
        Routed(messages[i]) =>
            \A t \in DOMAIN messages[i].topics :
                validateTopicStructure(messages[i].topics[t])

\* C15: every route set generateTopics returns, with or without a template for
\* the format, holds the enterprise-wide topic
\* uns/enterprise/<enterprise>/equipment/<equipmentId>, <enterprise> being the
\* hierarchy's enterprise or 'unknown'.
C15_EnterpriseWideTopicInEveryRouteSet ==
    \A i \in DOMAIN messages :
        Routed(messages[i]) =>
            InSeq(<<"uns", "enterprise",
                    Or(Get(messages[i].structure, "enterprise"), "unknown"),
                    "equipment", getEquipmentId(messages[i].transformedData)>>,
                  messages[i].topics)

(***************************************************************************)
(* Properties of reconfiguration                                           *)
(***************************************************************************)

\* C16: switchOutputFormat with a name that is not registered fails with an
\* error and leaves the configuration, and with it the active output format,
\* unchanged, so a message handled next is transformed with the format that was
\* active before; with a registered name it succeeds and makes it the active one.
C16_UnknownFormatIsRejected ==
    [][ /\ switched' # switched =>
              IF switched'.formatName \notin transformers
              THEN switched'.error /\ config' = config /\ messages' = messages
              ELSE ~switched'.error /\ config'.outputFormat = switched'.formatName
        /\ \A i \in DOMAIN messages' :
              (i \notin DOMAIN messages /\ messages'[i].switchAtStart.error
               /\ PastResolution(messages'[i]))
              => messages'[i].outputFormat = config.outputFormat ]_vars

\* A switch to an unregistered format failed, and the message that arrived next
\* was transformed with the format of the configuration file and published.
C16_Witness ==
    \E i \in DOMAIN messages :
        /\ messages[i].switchAtStart = [formatName |-> UnlistedFormat, error |-> TRUE]
        /\ messages[i].outputFormat = "isa95-part2"
        /\ messages[i].pc = "done"
        /\ Len(messages[i].published) > 0

\* C17: after switchOutputFormat succeeded for a registered built-in format,
\* every valid observation whose processing starts afterwards is transformed
\* with that format (its transform does not fail) and goes on to be published.
C17_SwitchedFormatTransforms ==
    \A i \in DOMAIN messages :
        LET m == messages[i] IN
        ( /\ m.switchAtStart.formatName \in transformers
          /\ ~m.switchAtStart.error
          /\ PastResolution(m) )
        => /\ m.outputFormat = m.switchAtStart.formatName
           /\ m.failedAt # "transform"

\* C18: a message is transformed and routed by the transformer and topic
\* generator that were current when its processing began, also when
\* reloadConfiguration replaced them while it waited.
C18_InFlightKeepsItsInstances ==
    \A i \in DOMAIN messages :
        PastResolution(messages[i]) =>
            messages[i].transformedWith = messages[i].beganWith

(***************************************************************************)
(* Properties of the formats and of the routes of one observation          *)
(***************************************************************************)

\* C19: transforming the same observation and hierarchy through isa95-part2 and
\* through isa95-legacy yields a document each time, never an error, and the two
\* documents differ.
C19_BothFormatsYieldDocuments ==
    \A i \in DOMAIN messages :
        LET m == messages[i]
            enhanced == transform("isa95-part2", m.rawData, m.structure)
            legacy == transform("isa95-legacy", m.rawData, m.structure)
        IN  (PastResolution(m) /\ m.rawData # Null)
            => /\ enhanced # TransformError
               /\ legacy # TransformError
               /\ enhanced # legacy

\* The hierarchy of message m came from an announcement and names the
\* enterprise, site, area and work unit.
PlacedByAnnouncement(m) ==
    /\ Truthy(m.structure)
    /\ ~IsFallback(m.structure)
    /\ \A key \in {"enterprise", "site", "area", "workUnit"} :
          Has(m.structure, key) /\ m.structure[key] \notin {Undefined, NoId}

\* The observation has sensor readings, state RUNNING and no quality info.
RunningWithSensors(rawData) ==
    /\ rawData # Null
    /\ rawData.sensors
    /\ rawData.hasStatus /\ rawData.state = "RUNNING"
    /\ ~rawData.quality

\* The routes the scenario names: the base topic ending in the data type
\* process, a topic under the equipment path ending in process/parameters, and
\* the enterprise-wide topic.
ScenarioRoutes(m) ==
    LET s == m.structure
        E == m.equipmentId
        equipmentPath == <<"uns", s.enterprise, s.site, s.area, s.workUnit, E>>
    IN  /\ Len(m.topics) >= 1
        /\ m.topics[1] = equipmentPath \o <<"process">>
        /\ \E k \in DOMAIN m.topics :
              /\ StartsWith(m.topics[k], equipmentPath)
              /\ EndsWith(m.topics[k], <<"process", "parameters">>)
        /\ InSeq(<<"uns", "enterprise", s.enterprise, "equipment", E>>, m.topics)

\* C20 as stated: after an announcement placed equipment E, an observation from
\* E with sensor readings, state RUNNING and no quality info is routed to
\* uns/<enterprise>/<site>/<area>/<workUnit>/E/process, to a sub-topic ending in
\* /process/parameters and to uns/enterprise/<enterprise>/equipment/E.
C20_ScenarioRoutesAsStated ==
    \A i \in DOMAIN messages :
        LET m == messages[i] IN
        (Routed(m) /\ PlacedByAnnouncement(m) /\ RunningWithSensors(m.rawData))
        => ScenarioRoutes(m)

\* C20: the same, for an observation whose status has no error code; with an
\* error code the observation is classified as maintenance, not process.
C20_ScenarioRoutes ==
    \A i \in DOMAIN messages :
        LET m == messages[i] IN
        ( /\ Routed(m) /\ PlacedByAnnouncement(m) /\ RunningWithSensors(m.rawData)
          /\ ~m.rawData.errorCode )
        => ScenarioRoutes(m)

\* An announced equipment's RUNNING observation without error code was routed
\* and its base topic was published.
C20_Witness ==
    \E i \in DOMAIN messages :
        LET m == messages[i] IN
        /\ m.pc = "done"
        /\ PlacedByAnnouncement(m) /\ RunningWithSensors(m.rawData)
        /\ ~m.rawData.errorCode
        /\ m.structure.enterprise = "ACME"
        /\ <<"uns", "ACME", "Detroit", "PRODUCTION", "Line1", ID_PROD, "process">>
               \in PublishedTopics

(***************************************************************************)
(* Properties of the fallback hierarchy                                    *)
(***************************************************************************)

\* The area the documented rules give each id of FallbackIds, worked out by
\* hand: 'prod' first, then 'pack', then 'quality' or 'qc', letter case ignored.
DocumentedArea(equipmentId) ==
    CASE equipmentId = "Prod1" -> "PRODUCTION"
      [] equipmentId = "PACK-2" -> "PACKAGING"
      [] equipmentId = "Quality9" -> "QUALITY_CONTROL"
      [] equipmentId = "QC" -> "QUALITY_CONTROL"
      [] equipmentId = "PackProd" -> "PRODUCTION"
      [] equipmentId = "QcPack" -> "PACKAGING"
      [] equipmentId = "X7" -> "GENERAL"

DocumentedFallback(equipmentId, structure) ==
    /\ structure.isFallback = TRUE
    /\ structure.enterprise = "UnknownEnterprise"
    /\ structure.site = "UnknownSite"
    /\ structure.workUnit = equipmentId
    /\ structure.area = DocumentedArea(equipmentId)

\* C21: the fallback hierarchy of every equipment id has isFallback = true,
\* enterprise 'UnknownEnterprise', site 'UnknownSite', workUnit equal to the id
\* and the area the substring rules give, whether a timer or a lookup built it;
\* two fallbacks built for the same id are equal.
C21_FallbackFollowsTheRules ==
    /\ \A i \in DOMAIN requests :
          requests[i].state = "resolved" =>
              DocumentedFallback(requests[i].equipmentId, requests[i].result)
    /\ (returned.equipmentId # NoId /\ Truthy(returned.result)) =>
          DocumentedFallback(returned.equipmentId, returned.result)
    /\ \A i, j \in DOMAIN requests :
          ( /\ requests[i].equipmentId = requests[j].equipmentId
            /\ requests[i].state = "resolved" /\ requests[j].state = "resolved" )
          => requests[i].result = requests[j].result

\* C21 witness: the timer of a call for PackProd built a fallback in PRODUCTION
\* and a lookup of QcPack has returned one in PACKAGING.
C21_Witness ==
    /\ \E i \in DOMAIN requests :
          /\ requests[i].equipmentId = "PackProd"
          /\ requests[i].state = "resolved"
          /\ requests[i].result.area = "PRODUCTION"
    /\ returned.equipmentId = "QcPack"
    /\ IsFallback(returned.result)
    /\ returned.result.area = "PACKAGING"

(***************************************************************************)
(* Properties of the transformed document                                  *)
(***************************************************************************)

\* The performance the OEE is documented to use: the reported efficiency, 0
\* included, and 100 only when none is reported.
DocumentedPerformance(rawData) ==
    IF rawData.hasStatus /\ rawData.efficiency # NoNumber
    THEN rawData.efficiency
    ELSE 100

\* C22: the OEE of a transformed document is availability * performance *
\* qualityRate / 10000, with the reported efficiency (0 included) as the
\* performance and 100 only when none is reported, and it lies in 0..100.
C22_OEEUsesReportedEfficiency ==
    \A i \in DOMAIN messages :
        Routed(messages[i]) =>
            LET rawData == messages[i].rawData
                document == messages[i].transformedData
            IN  /\ document.oee =
                      Frac(document.availability * DocumentedPerformance(rawData)
                               * document.quality.num,
                           document.quality.den * 10000)
                /\ document.oee.num >= 0
                /\ document.oee.num <= 100 * document.oee.den

\* The quality rate as documented: 100 when the counts are absent or both
\* zero, goodParts / (goodParts + badParts) * 100 otherwise.
DocumentedQualityRate(rawData) ==
    IF \/ ~rawData.quality
       \/ rawData.goodParts = NoNumber \/ rawData.badParts = NoNumber
       \/ (rawData.goodParts = 0 /\ rawData.badParts = 0)
    THEN Frac(100, 1)
    ELSE Frac(rawData.goodParts * 100, rawData.goodParts + rawData.badParts)

\* C23: the quality rate of a transformed document is 100 when the quality
\* counts are absent or both zero, and goodParts / (goodParts + badParts) * 100
\* for every other pair of counts, also when exactly one count is zero.
C23_QualityRateOfEveryPair ==
    \A i \in DOMAIN messages :
        Routed(messages[i]) =>
            messages[i].transformedData.quality =
                DocumentedQualityRate(messages[i].rawData)

\* The observation is in maintenance or reports an error code.
NeedsMaintenance(rawData) ==
    rawData.hasStatus /\ (rawData.state = "MAINTENANCE" \/ rawData.errorCode)

\* C24: the dataType of a transformed document is decided by the observation
\* alone, first match wins: quality info gives quality; else state MAINTENANCE
\* or an error code gives maintenance; else sensor readings give process; else
\* equipment.  Two documents of the same observation have the same dataType.
C24_DataTypeFirstMatchWins ==
    /\ \A i \in DOMAIN messages :
          Routed(messages[i]) =>
              LET rawData == messages[i].rawData
                  dataType == messages[i].transformedData.dataType
              IN  /\ rawData.quality => dataType = "quality"
                  /\ (~rawData.quality /\ NeedsMaintenance(rawData))
                         => dataType = "maintenance"
                  /\ (~rawData.quality /\ ~NeedsMaintenance(rawData) /\ rawData.sensors)
                         => dataType = "process"
                  /\ (~rawData.quality /\ ~NeedsMaintenance(rawData) /\ ~rawData.sensors)
                         => dataType = "equipment"
    /\ \A i, j \in DOMAIN messages :
          (Routed(messages[i]) /\ Routed(messages[j])
           /\ messages[i].rawData = messages[j].rawData)
          => messages[i].transformedData.dataType = messages[j].transformedData.dataType

\* C24 witness: an observation with quality info and sensor readings was
\* transformed into a document of type quality and published under .../quality.
C24_Witness ==
    \E i \in DOMAIN messages :
        /\ messages[i].pc = "done"
        /\ messages[i].rawData.quality /\ messages[i].rawData.sensors
        /\ messages[i].transformedData.dataType = "quality"
        /\ \E k \in DOMAIN messages[i].published :
              EndsWith(messages[i].published[k], <<"quality">>)

(***************************************************************************)
(* Properties of resolve calls                                             *)
(***************************************************************************)

\* Request i was completed in this step by its timer.
TimedOut(i) ==
    /\ i \in DOMAIN requests
    /\ requests[i].timer /\ ~requests'[i].timer
    /\ IsFallback(requests'[i].result)

\* C25: a resolve call that times out writes nothing to the registry: the map
\* and the announcement cache are as before, no entry is ever a fallback, and
\* an announcement that arrives afterwards is stored as the entry of its id.
C25_TimeoutWritesNothing ==
    /\ [][ (\E i \in DOMAIN requests : TimedOut(i)) =>
               UNCHANGED <<enterpriseMap, metadataCache, emitted>> ]_vars
    /\ [](\A e \in DOMAIN enterpriseMap :
             /\ ~IsFallback(enterpriseMap[e])
             /\ e \in DOMAIN lastValid
             /\ enterpriseMap[e] = BuildStructure(lastValid[e]))

\* C25 witness: a call for ID_PROD timed out with a fallback while the id had no
\* entry, and an announcement for it was stored afterwards.
C25_Witness ==
    /\ \E i \in DOMAIN requests :
          /\ requests[i].equipmentId = ID_PROD
          /\ requests[i].state = "resolved"
          /\ IsFallback(requests[i].result)
    /\ ID_PROD \in DOMAIN enterpriseMap
    /\ ~IsFallback(enterpriseMap[ID_PROD])

\* C26: per equipment id the registry only moves forward: no step removes an
\* entry, a step that handles no valid announcement leaves the map as it is,
\* and a valid announcement adds at most the one id it names, replacing the
\* entry of an id that already has one.
C26_RegistryOnlyMovesForward ==
    [][ /\ DOMAIN enterpriseMap \subseteq DOMAIN enterpriseMap'
        /\ emitted' = emitted => enterpriseMap' = enterpriseMap
        /\ Cardinality(DOMAIN enterpriseMap') <= Cardinality(DOMAIN enterpriseMap) + 1
        /\ DOMAIN lastValid' = DOMAIN lastValid =>
               DOMAIN enterpriseMap' = DOMAIN enterpriseMap ]_vars

\* C26 witness: ID_PROD was announced twice, the second time by another
\* publisher, and is still the one known id, with the later entry.
C26_Witness ==
    /\ handled = 2 /\ emitted = 2
    /\ DOMAIN enterpriseMap = {ID_PROD}
    /\ Cardinality(DOMAIN metadataCache) = 2
    /\ \E i \in DOMAIN requests : requests[i].state = "pending"

\* The discovery requests published so far for an id.
DiscoveryRequestsFor(equipmentId) ==
    {k \in DOMAIN mqttOut :
        mqttOut[k].kind = "discovery" /\ mqttOut[k].equipmentId = equipmentId}

\* C27: when the registry holds an entry for the id, a resolve call returns
\* that entry at once: the call is complete when it returns, it published no
\* discovery request, started no timer and registered no listener.
C27_KnownIdResolvesAtOnce ==
    [][ Len(requests') > Len(requests) =>
          LET request == requests'[Len(requests')] IN
          request.equipmentId \in DOMAIN enterpriseMap =>
              /\ request.state = "resolved"
              /\ request.result = enterpriseMap[request.equipmentId]
              /\ ~IsFallback(request.result)
              /\ ~request.timer /\ ~request.listener
              /\ mqttOut' = mqttOut ]_vars

\* C27 witness: a call for the registered ID_PROD is complete and nothing was
\* ever published for ID_PROD, while a call for an unknown id did publish.
C27_Witness ==
    /\ ID_PROD \in DOMAIN enterpriseMap
    /\ \E i \in DOMAIN requests :
          /\ requests[i].equipmentId = ID_PROD
          /\ requests[i].state = "resolved"
          /\ ~IsFallback(requests[i].result)
    /\ DiscoveryRequestsFor(ID_PROD) = {}
    /\ DiscoveryRequestsFor(ID_X) # {}

\* The resolve calls made so far for an id.
RequestsFor(equipmentId) ==
    {i \in DOMAIN requests : requests[i].equipmentId = equipmentId}

\* C28: resolve calls for the same never-announced id do not interfere: each
\* published its own discovery request, each pending call has its own armed
\* timer, a timer completes its own call and no other, and all completed calls
\* hold fallback hierarchies equal in enterprise, site, area, workUnit and
\* isFallback.
C28_ConcurrentResolvesAreIndependent ==
    /\ [](\A i \in RequestsFor(ID_X) :
             /\ requests[i].state \in {"pending", "resolved"}
             /\ requests[i].state = "pending" => requests[i].timer
             /\ requests[i].state = "resolved" =>
                   /\ requests[i].result.isFallback = TRUE
                   /\ requests[i].result.workUnit = ID_X
                   /\ \A j \in RequestsFor(ID_X) :
                         requests[j].state = "resolved" =>
                             \A key \in {"enterprise", "site", "area", "workUnit",
                                         "isFallback"} :
                                 requests[i].result[key] = requests[j].result[key])
    /\ [](Cardinality(DiscoveryRequestsFor(ID_X)) = Cardinality(RequestsFor(ID_X)))
    /\ [][ \A i \in DOMAIN requests :
              TimedOut(i) => \A j \in DOMAIN requests \ {i} : requests'[j] = requests[j]
         ]_vars

\* C28 witness: two calls for ID_X were pending together; one has timed out
\* and the other still waits for its own timer.
C28_Witness ==
    \E i, j \in RequestsFor(ID_X) :
        /\ i # j
        /\ requests[i].state = "resolved" /\ IsFallback(requests[i].result)
        /\ requests[j].state = "pending" /\ requests[j].timer
        /\ Cardinality(DiscoveryRequestsFor(ID_X)) = 2

\* Request i was completed in this step.
Completed(i) ==
    /\ i \in DOMAIN requests
    /\ requests[i].state = "pending" /\ requests'[i].state = "resolved"

\* C29: a valid announcement for an id completes every pending resolve call for
\* that id with the announced, non-fallback hierarchy and disarms its timer; a
\* completed call is never changed again, so no fallback overrides it; and an
\* announcement completes no call for another id.
C29_AnnouncementCompletesPendingCalls ==
    /\ [](\A i \in DOMAIN requests :
             requests[i].state = "pending" =>
                 requests[i].equipmentId \notin DOMAIN enterpriseMap)
    /\ [][ \A i \in DOMAIN requests :
              /\ requests[i].state = "resolved" => requests'[i] = requests[i]
              /\ (Completed(i) /\ emitted' > emitted) =>
                    /\ ~IsFallback(requests'[i].result)
                    /\ ~requests'[i].timer /\ ~requests'[i].listener
                    /\ requests[i].equipmentId \in DOMAIN enterpriseMap'
                    /\ requests'[i].result = lastValid'[requests[i].equipmentId].location
              /\ (Completed(i) /\ emitted' = emitted) => TimedOut(i)
         ]_vars

\* C29 witness: two calls for ID_PROD were pending, an announcement for ID_QC
\* completed neither, and an announcement for ID_PROD completed both.
C29_Witness ==
    /\ Cardinality(DiscoveryRequestsFor(ID_PROD)) = 2
    /\ DOMAIN enterpriseMap = {ID_PROD, ID_QC}
    /\ \A i \in RequestsFor(ID_PROD) :
          /\ requests[i].state = "resolved"
          /\ ~IsFallback(requests[i].result)
          /\ ~requests[i].timer

\* C30: the hierarchy a resolve call returns when an announcement completes it
\* is the value a lookup of that id returns immediately afterwards, i.e. the
\* entry the registry has just stored (with equipmentType, tags and source).
C30_ResolvedValueIsTheStoredEntry ==
    [][ \A i \in DOMAIN requests :
           (Completed(i) /\ emitted' > emitted) =>
               requests'[i].result =
                   getEnterpriseStructure(enterpriseMap', requests[i].equipmentId)
      ]_vars

(***************************************************************************)
(* Properties of the discovery waiters                                     *)
(***************************************************************************)

\* The structureDiscovered listeners requestMetadata has registered and not
\* removed, the armed timers, and the calls still pending.
RegisteredListeners == {i \in DOMAIN requests : requests[i].listener}
ArmedTimers == {i \in DOMAIN requests : requests[i].timer}
PendingCalls == {i \in DOMAIN requests : requests[i].state = "pending"}

\* C31: discovery waiters do not leak: the listeners registered by
\* requestMetadata are those of the calls still pending, and a completed call
\* has neither a listener nor a timer that can fire.
C31_WaitersDoNotLeak ==
    /\ Cardinality(RegisteredListeners) = Cardinality(PendingCalls)
    /\ RegisteredListeners = PendingCalls
    /\ \A i \in DOMAIN requests :
          requests[i].state = "resolved" => ~requests[i].listener /\ ~requests[i].timer

\* C31 witness: one call was completed by an announcement and another by its
\* timer, and no listener is left.
C31_Witness ==
    /\ \E i \in DOMAIN requests :
          requests[i].state = "resolved" /\ IsFallback(requests[i].result)
    /\ \E j \in DOMAIN requests :
          /\ requests[j].state = "resolved" /\ ~IsFallback(requests[j].result)
          /\ DiscoveryRequestsFor(requests[j].equipmentId) # {}
    /\ RegisteredListeners = {}

(***************************************************************************)
(* Properties of the counters, the route sets and the format of a message  *)
(***************************************************************************)

\* C32: the transform-error counter equals the number of messages whose
\* transform step failed; a message that fails JSON parsing, the cache write,
\* the persistence write or the publish does not increase it.
C32_CounterCountsTransformFailuresOnly ==
    processingStats.transformationErrors =
        Cardinality({i \in DOMAIN messages : messages[i].failedAt = "transform"})

\* C33: the route set of a message never holds the same topic twice, so a
\* message is handed to mqttClient.publish at most once per topic.
C33_NoTopicTwice ==
    \A i \in DOMAIN messages :
        Routed(messages[i]) =>
            /\ \A k, l \in DOMAIN messages[i].topics :
                  k # l => messages[i].topics[k] # messages[i].topics[l]
            /\ \A k, l \in DOMAIN messages[i].published :
                  k # l => messages[i].published[k] # messages[i].published[l]

\* C34: one message is handled with one format: the format that named its
\* transformer also named its topic templates, whatever switchOutputFormat
\* calls were made while the message waited on discovery.
C34_OneFormatPerMessage ==
    \A i \in DOMAIN messages :
        Routed(messages[i]) =>
            /\ messages[i].transformedData =
                  transform(messages[i].outputFormat, messages[i].rawData,
                            messages[i].structure)
            /\ messages[i].topics =
                  generateTopics(messages[i].outputFormat,
                                 messages[i].transformedData, messages[i].structure)

\* C34 witness: a message began under one format, waited on discovery while
\* switchOutputFormat chose another, and was transformed and routed.
C34_Witness ==
    \E i \in DOMAIN messages :
        /\ Routed(messages[i])
        /\ messages[i].request # 0
        /\ messages[i].formatAtStart # messages[i].outputFormat
        /\ messages[i].topics # << >>
        /\ messages[i].pc = "done"

(***************************************************************************)
(* Properties of reconfiguration                                           *)
(***************************************************************************)

\* C35: as soon as a FlexibleTransformer is constructed, every output format of
\* the configuration that has a built-in transformer is registered, so whatever
\* is handled next finds all of them available.
C35_FormatsRegisteredOnConstruction ==
    transformers \subseteq getAvailableFormats

RECURSIVE WildcardMatch(_, _)
\* The publish/subscribe wildcard rules applied to a whole topic: '+' stands
\* for exactly one level, '#' for all remaining levels, and every other
\* pattern level equals the topic level at its position.
WildcardMatch(pattern, topic) ==
    IF pattern = << >> THEN topic = << >>
    ELSE IF Head(pattern) = "#" THEN TRUE
    ELSE IF topic = << >> THEN FALSE
    ELSE /\ Head(pattern) = "+" \/ Head(pattern) = Head(topic)
         /\ WildcardMatch(Tail(pattern), Tail(topic))

\* C37: a message is classified to the source profile exactly when its whole
\* topic matches the profile's pattern under the wildcard rules, and a message
\* of an unmatched topic is dropped with nothing cached, persisted or published.
C37_ClassifiedByWholeTopic ==
    \A i \in DOMAIN messages :
        messages[i].failedAt # "parse" =>
            /\ messages[i].sourceType = "raw-plc" <=>
                  WildcardMatch(inputTopics, messages[i].topic)
            /\ messages[i].sourceType = NoSource =>
                  /\ messages[i].pc = "returned"
                  /\ ~messages[i].cached /\ ~messages[i].persisted
                  /\ messages[i].published = << >>

(***************************************************************************)
(* Properties of the energy metrics                                        *)
(***************************************************************************)

\* The energy metrics as documented: present when the observation has a numeric
\* power-consumption reading, energyTotal being that reading multiplied by the
\* runtime hours the observation's status reports, or by 1 when it reports none.
DocumentedEnergyMetrics(rawData) ==
    IF ~rawData.sensors \/ rawData.powerConsumption = NoNumber THEN Null
    ELSE [ powerConsumption |-> rawData.powerConsumption,
           energyTotal |-> rawData.powerConsumption *
                              (IF rawData.hasStatus /\ rawData.runtimeHours # NoNumber
                               THEN rawData.runtimeHours ELSE 1),
           efficiency |-> 85 ]

\* C38: energy metrics are present in a transformed document exactly when the
\* observation has a numeric power-consumption reading, and then energyTotal is
\* powerConsumption times the runtime hours its status reports (1 when none are
\* reported), with efficiency 85.
C38_EnergyTotalUsesReportedRuntime ==
    \A i \in DOMAIN messages :
        Routed(messages[i]) =>
            messages[i].transformedData.energyMetrics =
                DocumentedEnergyMetrics(messages[i].rawData)

(***************************************************************************)
(* Properties of the bridge's histories                                    *)
(***************************************************************************)

\* The arrival numbers of the most recent entries of a list that was given n
\* entries and keeps at most limit of them, in arrival order.
MostRecent(n, limit) ==
    LET kept == IF n < limit THEN n ELSE limit IN
    [i \in 1..kept |-> n - kept + i]

\* The limit of the list scadaData.trends holds under key.
TrendLimit(key) == IF key[1] = "trends" THEN EquipmentTrendPoints ELSE TagTrendPoints

\* C39: the bridge's histories stay bounded: the trend list of a tag has at
\* most 1000 points, the trend list of an equipment at most 500, the alarm
\* list at most 100 entries, and each list holds the most recent entries it
\* was given, in arrival order.
C39_HistoriesStayBounded ==
    /\ Len(scadaData.alarms) <= AlarmEntries
    /\ scadaData.alarms = MostRecent(arrivals.alarms, AlarmEntries)
    /\ \A key \in DOMAIN scadaData.trends :
          /\ Len(scadaData.trends[key]) <= TrendLimit(key)
          /\ scadaData.trends[key] = MostRecent(arrivals.trends[key], TrendLimit(key))

\* C39 witness: the alarm list, the trend list of a tag and the trend list of
\* an equipment were each given more entries than they keep.
C39_Witness ==
    /\ arrivals.alarms > AlarmEntries /\ Len(scadaData.alarms) = AlarmEntries
    /\ \E key \in DOMAIN scadaData.trends :
          /\ key[1] = "UNS"
          /\ arrivals.trends[key] > TagTrendPoints
          /\ Len(scadaData.trends[key]) = TagTrendPoints
    /\ \E key \in DOMAIN scadaData.trends :
          /\ key[1] = "trends"
          /\ arrivals.trends[key] > EquipmentTrendPoints
          /\ Len(scadaData.trends[key]) = EquipmentTrendPoints

====
